---- MODULE Spec2Model ----
(***************************************************************************)
(* Model of github.com/Tagliapietra96/logger: the query options of package *)
(* queries (src/queries/queries.go) as they are applied by queryLogs       *)
(* (src/handlers.go) to the strings.Builder that holds the SQL statement.  *)
(*                                                                         *)
(* Text is modelled word by word: a string is a sequence of tokens, each   *)
(* token either one separator character (" ", ",", "'", "%", ";") or a     *)
(* maximal run of other characters.  The clause markers the code searches  *)
(* for (" WHERE ", " ORDER BY ", " LIMIT ") are therefore token sequences, *)
(* and strings.Contains / strings.Split are substring search over tokens,  *)
(* so a marker that straddles two writes, or that sits inside an operand,  *)
(* is found exactly as the code finds it.                                  *)
(***************************************************************************)
EXTENDS Integers, Sequences, FiniteSets, TLC

VARIABLES
    sb,       \* the strings.Builder `query` of queryLogs
    applied,  \* history: the options applied so far to sb, in order
    pc,       \* "building": inside the config loop; "done": db.Query has run
    rows,     \* what queryLogs returned last: [err, ids]
    store,    \* the committed rows of logs, tags and log_tags in logs_data.db
    tx,       \* the write transaction of createNewLog: its state and its rows
    db,       \* the *sql.DB of the running call: "none", "open" or "closed"
    call,     \* the running (or last) API call: its arguments and its locals
    at,       \* where the call stands; "idle" between calls, "exited" after os.Exit
    events,   \* history of the call: what it did to connection and transaction
    wrote,    \* history: the logs of the writes that returned nil, in order
    out,      \* what the last call returned: [err, logs]
    heap,     \* the backing arrays of the tag lists of the loggers
    loggers,  \* the fields of the Logger a and of its copy b
    last,     \* history: the last call on a logger and the logger it was made on
    calls,    \* number of calls made on the loggers
    disk,     \* logs_data.db in the folder: whether the file and its schema exist
    procs,    \* two callers at work on one folder at the same time
    printer   \* a run of printLogs: the logger, the logs and the column widths

\* The state of the query builder, of the store and its callers, of the
\* loggers, and of the concurrent callers and the printer.
builder == <<sb, applied, pc, rows>>
process == <<store, tx, db, call, at, events, wrote, out, disk>>
settings == <<heap, loggers, last, calls>>
aside == <<procs, printer>>
vars == <<sb, applied, pc, rows, store, tx, db, call, at, events, wrote, out,
          heap, loggers, last, calls, disk, procs, printer>>

\* Largest number of options handed to one queryLogs call.
MaxOps == 3

----------------------------------------------------------------------------
(* Text primitives: Go's strings package on token sequences.               *)

\* strings.Index: 1-based position of the first occurrence of sep, 0 if none.
Lowest(hits) ==
    IF hits = {} THEN 0 ELSE CHOOSE i \in hits : \A j \in hits : i <= j

Index(s, sep) ==
    Lowest({i \in 1..(Len(s) - Len(sep) + 1) : SubSeq(s, i, i + Len(sep) - 1) = sep})

\* strings.Contains
Contains(s, sep) == Index(s, sep) # 0

\* strings.Split for a non-empty separator: every piece between
\* non-overlapping occurrences taken left to right.
RECURSIVE SplitAt(_, _, _)
SplitAt(s, sep, i) ==
    IF i = 0 THEN <<s>>
    ELSE <<SubSeq(s, 1, i - 1)>>
         \o SplitAt(SubSeq(s, i + Len(sep), Len(s)), sep,
                    Index(SubSeq(s, i + Len(sep), Len(s)), sep))

Split(s, sep) == SplitAt(s, sep, Index(s, sep))

\* strings.Join
RECURSIVE Join(_, _)
Join(pieces, sep) ==
    IF pieces = <<>> THEN <<>>
    ELSE IF Len(pieces) = 1 THEN pieces[1]
    ELSE pieces[1] \o sep \o Join(Tail(pieces), sep)

\* fmt.Sprintf("%d", n)
FmtInt(n) == <<ToString(n)>>

\* The literal markers of queries.go.
WHERE == <<" ", "WHERE", " ">>
ORDERBY == <<" ", "ORDER", " ", "BY", " ">>
LIMIT == <<" ", "LIMIT", " ">>
OFFSET == <<" ", "OFFSET", " ">>
AND == <<" ", "AND", " ">>
OR == <<" ", "OR", " ">>
COMMA == <<",", " ">>

\* const defaultQuery: "\nSELECT DISTINCT ... INNER JOIN tags ON log_tags.tag_id
\* = tags.id\n".  It starts and ends with a newline and holds no marker, so it
\* is the newline token, one token for the text between, the newline token.
defaultQuery == <<"\n", "SELECT_FROM_JOIN", "\n">>

----------------------------------------------------------------------------
(* The option builders of package queries.  A QueryOption is a closure     *)
(* over the builder; here each is an operator from the builder's text s to *)
(* the builder's text after the option ran.  The `config` closures that    *)
(* prepareFilter and prepareSort wrap only ever append text, so a config   *)
(* is modelled by the text it appends.                                     *)

\* A direction string is read letter by letter: a sequence of one-letter
\* strings ("long-s" stands for the letter U+017F, whose upper case is "S").
\* unicode.ToUpper on the letters the model uses; every other letter (blank,
\* digit, upper case) is its own upper case.
ToUpperRune(c) ==
    CASE c = "a" -> "A"
      [] c = "s" -> "S"
      [] c = "c" -> "C"
      [] c = "d" -> "D"
      [] c = "e" -> "E"
      [] c = "u" -> "U"
      [] c = "p" -> "P"
      [] c = "long-s" -> "S"
      [] OTHER -> c

\* strings.ToUpper
ToUpper(str) == [i \in 1..Len(str) |-> ToUpperRune(str[i])]

\* The Go string made of the letters of str.
RECURSIVE Text(_)
Text(str) == IF str = <<>> THEN "" ELSE str[1] \o Text(Tail(str))

\* A getOrder that compares the direction as it was given, in its own case.
getOrderExact(order) ==
    IF Text(order) # "ASC" /\ Text(order) # "DESC" THEN "ASC" ELSE Text(order)

orAsc(order) == IF order # "ASC" /\ order # "DESC" THEN "ASC" ELSE order

getOrder(order) == orAsc(Text(ToUpper(order)))

\* A CustomQuery that joins its fragment to the statement with WHERE or AND.
CustomQueryJoined(query, s) ==
    s \o (IF Contains(s, WHERE) THEN AND ELSE WHERE) \o query

CustomQuery(query, s) == s \o <<" ">> \o query

\* A prepareFilter that replaces the WHERE section instead of extending it.
prepareFilterOverwrite(config, s) ==
    LET rest == IF Contains(s, ORDERBY) THEN ORDERBY \o Split(s, ORDERBY)[2]
                ELSE IF Contains(s, LIMIT) THEN LIMIT \o Split(s, LIMIT)[2]
                ELSE <<>>
    IN  defaultQuery \o WHERE \o config \o rest

\* `if x != "" { sb.WriteString(marker); sb.WriteString(x) }`
writeIfSet(text, marker, x) == IF x # <<>> THEN text \o marker \o x ELSE text

\* The locals order and limit after an order section is cut at " LIMIT ".
cutOrder(order) ==
    IF Contains(order, LIMIT)
    THEN [order |-> Split(order, LIMIT)[1], limit |-> Split(order, LIMIT)[2]]
    ELSE [order |-> order, limit |-> <<>>]

\* The locals filter, order and limit of prepareFilter in its first branch,
\* from pieces[1] of the split at " WHERE ".
cutFilter(filter) ==
    IF Contains(filter, ORDERBY)
    THEN [filter |-> Split(filter, ORDERBY)[1]] @@ cutOrder(Split(filter, ORDERBY)[2])
    ELSE IF Contains(filter, LIMIT)
    THEN [filter |-> Split(filter, LIMIT)[1], order |-> <<>>,
          limit |-> Split(filter, LIMIT)[2]]
    ELSE [filter |-> filter, order |-> <<>>, limit |-> <<>>]

\* The locals filter, order and limit of prepareFilter after its branches.
filterLocals(s) ==
    IF Contains(s, WHERE) THEN cutFilter(Split(s, WHERE)[2])
    ELSE IF Contains(s, ORDERBY)
    THEN [filter |-> <<>>] @@ cutOrder(Split(s, ORDERBY)[2])
    ELSE IF Contains(s, LIMIT)
    THEN [filter |-> <<>>, order |-> <<>>, limit |-> Split(s, LIMIT)[2]]
    ELSE [filter |-> <<>>, order |-> <<>>, limit |-> <<>>]

\* The builder of prepareFilter after its branches: reset and rewritten when
\* a marker was found, else as it was (defaultQuery when it was empty).
filterBase(s, filter) ==
    IF Contains(s, WHERE) THEN defaultQuery \o WHERE \o filter
    ELSE IF Contains(s, ORDERBY) \/ Contains(s, LIMIT) THEN defaultQuery
    ELSE IF s = <<>> THEN defaultQuery
    ELSE s

\* The writes of prepareFilter after its branches, from the saved locals.
filterWrite(config, s, locals) ==
    writeIfSet(
        writeIfSet(
            filterBase(s, locals.filter)
                \o (IF ~Contains(s, WHERE) THEN WHERE ELSE AND) \o config,
            ORDERBY, locals.order),
        LIMIT, locals.limit)

prepareFilter(config, s) == filterWrite(config, s, filterLocals(s))

\* A prepareSort that writes its key at the end of the statement as it stands.
prepareSortAtEnd(config, s) ==
    s \o (IF Contains(s, ORDERBY) THEN COMMA ELSE ORDERBY) \o config

\* The locals base, order and limit of prepareSort after its branches.
sortLocals(s) ==
    IF Contains(s, ORDERBY)
    THEN [base |-> Split(s, ORDERBY)[1]] @@ cutOrder(Split(s, ORDERBY)[2])
    ELSE IF Contains(s, LIMIT)
    THEN [base |-> Split(s, LIMIT)[1], order |-> <<>>, limit |-> Split(s, LIMIT)[2]]
    ELSE [base |-> <<>>, order |-> <<>>, limit |-> <<>>]

\* The builder of prepareSort after its branches.
sortBase(s, locals) ==
    IF Contains(s, ORDERBY) THEN locals.base \o ORDERBY \o locals.order
    ELSE IF Contains(s, LIMIT) THEN locals.base
    ELSE IF s = <<>> THEN defaultQuery
    ELSE s

\* The writes of prepareSort after its branches, from the saved locals.
sortWrite(config, s, locals) ==
    writeIfSet(
        sortBase(s, locals) \o (IF ~Contains(s, ORDERBY) THEN ORDERBY ELSE COMMA)
            \o config,
        LIMIT, locals.limit)

prepareSort(config, s) == sortWrite(config, s, sortLocals(s))

\* The loop only builds the wrapped options; none of them is called on sb.
AddFilters(configs, s) ==
    LET built == [i \in 1..Len(configs) |-> prepareFilter(configs[i], s)]
    IN  s

AddSorts(configs, s) ==
    LET built == [i \in 1..Len(configs) |-> prepareSort(configs[i], s)]
    IN  s

AddLimit(limitAndOffset, s) ==
    IF Len(limitAndOffset) = 0 THEN s
    ELSE
        (IF Contains(s, LIMIT) THEN Split(s, LIMIT)[1]
         ELSE IF s = <<>> THEN defaultQuery
         ELSE s)
        \o LIMIT \o FmtInt(limitAndOffset[1])
        \o (IF Len(limitAndOffset) > 1
            THEN OFFSET \o FmtInt(limitAndOffset[2])
            ELSE <<>>)

\* fmt.Sprintf("<column> LIKE '%%%s%%'", operand) and its NOT LIKE form
Like(column, operand) ==
    <<column, " ", "LIKE", " ", "'", "%">> \o operand \o <<"%", "'">>

NotLike(column, operand) ==
    <<column, " ", "NOT", " ", "LIKE", " ", "'", "%">> \o operand \o <<"%", "'">>

\* The text the closure of HasTags writes: the tags in the order of
\* append(tags, tag), " OR " after position i (0-based) when i < len(tags)-1.
RECURSIVE HasTagsFrom(_, _, _)
HasTagsFrom(all, i, n) ==
    IF i >= Len(all) THEN <<>>
    ELSE Like("tags.name", all[i + 1])
         \o (IF i < n - 1 THEN OR ELSE <<>>)
         \o HasTagsFrom(all, i + 1, n)

HasTagsConfig(tag, tags) == HasTagsFrom(Append(tags, tag), 0, Len(tags))

HasTags(tag, tags, s) == prepareFilter(HasTagsConfig(tag, tags), s)

LevelEqualConfig(level) == <<"logs.level", " ", "=", " ">> \o FmtInt(level)

LevelEqual(level, s) == prepareFilter(LevelEqualConfig(level), s)

LevelBetweenConfig(start, end) ==
    <<"logs.level", " ", "BETWEEN", " ">> \o FmtInt(start) \o AND \o FmtInt(end)

LevelBetween(start, end, s) == prepareFilter(LevelBetweenConfig(start, end), s)

CallerFileLike(file, s) == prepareFilter(Like("logs.caller_file", file), s)

CallerFileNotLike(file, s) == prepareFilter(NotLike("logs.caller_file", file), s)

MessageLike(message, s) == prepareFilter(Like("logs.message", message), s)

MessageNotLike(message, s) == prepareFilter(NotLike("logs.message", message), s)

SortLevel(order, s) == prepareSort(<<"logs.level", " ", getOrder(order)>>, s)

SortCallerLine(order, s) == prepareSort(<<"logs.caller_line", " ", getOrder(order)>>, s)

SortTimestamp(order, s) == prepareSort(<<"logs.time", " ", getOrder(order)>>, s)

----------------------------------------------------------------------------
(* db.Query(query.String()) of queryLogs: what the SQLite engine makes of  *)
(* the statement text.  The statement is lexed (white space dropped, a     *)
(* '...' string literal becomes one element), parsed as                    *)
(*   SELECT.. [WHERE expr] [ORDER BY keys] [LIMIT n [OFFSET m]] ;          *)
(* with AND binding tighter than OR, and evaluated over the rows of        *)
(* logs JOIN log_tags JOIN tags.  All sample text is in one letter case,   *)
(* so the case folding of LIKE is not modelled.                            *)

Word(w) == [t |-> "w", v |-> <<w>>]
Literal(content) == [t |-> "lit", v |-> content]
IsWord(e, w) == e.t = "w" /\ e.v = <<w>>
IsBlank(tok) == tok \in {" ", "\n"}

\* Lexer.  A quote opens a literal when an even number of quotes precede it
\* and closes one otherwise; text inside a literal is its content, blanks
\* outside are dropped, every other token is a word.  A literal that is never
\* closed becomes the word "!unterminated", which no grammar rule accepts.
Lex(s) ==
    LET quotesBefore(i) == Cardinality({j \in 1..(i - 1) : s[j] = "'"})
        closers(i) == {j \in (i + 1)..Len(s) : s[j] = "'"}
        close(i) == CHOOSE j \in closers(i) : \A k \in closers(i) : j <= k
        skip == [t |-> "skip", v |-> <<>>]
        unit(i) ==
            IF s[i] = "'" THEN
                IF quotesBefore(i) % 2 = 1 THEN skip
                ELSE IF closers(i) = {} THEN Word("!unterminated")
                ELSE Literal(SubSeq(s, i + 1, close(i) - 1))
            ELSE IF quotesBefore(i) % 2 = 1 \/ IsBlank(s[i]) THEN skip
            ELSE Word(s[i])
    IN  SelectSeq([i \in 1..Len(s) |-> unit(i)], LAMBDA u : u.t # "skip")

\* Numerals the engine reads back as integers.
Numerals == {ToString(n) : n \in 0..20}
IsNum(e) == e.t = "w" /\ e.v[1] \in Numerals
NumOf(e) == CHOOSE n \in 0..20 : ToString(n) = e.v[1]

IntColumns == {"logs.level", "logs.caller_line", "logs.time"}
TextColumns == {"logs.message", "logs.caller_file", "tags.name"}
Comparators == {"=", "!=", ">", "<"}

IsCol(e, cols) == e.t = "w" /\ e.v[1] \in cols

\* Number of elements of the predicate at the head of L, 0 if there is none.
AtomLen(L) ==
    IF Len(L) >= 5 /\ IsCol(L[1], IntColumns) /\ IsWord(L[2], "BETWEEN")
       /\ IsNum(L[3]) /\ IsWord(L[4], "AND") /\ IsNum(L[5]) THEN 5
    ELSE IF Len(L) >= 4 /\ IsCol(L[1], TextColumns) /\ IsWord(L[2], "NOT")
       /\ IsWord(L[3], "LIKE") /\ L[4].t = "lit" THEN 4
    ELSE IF Len(L) >= 3 /\ IsCol(L[1], TextColumns) /\ IsWord(L[2], "LIKE")
       /\ L[3].t = "lit" THEN 3
    ELSE IF Len(L) >= 3 /\ IsCol(L[1], IntColumns) /\ L[2].t = "w"
       /\ L[2].v[1] \in Comparators /\ IsNum(L[3]) THEN 3
    ELSE 0

\* expr := atom | atom AND expr | atom OR expr, returned in disjunctive form:
\* a sequence of disjuncts, each a sequence of atoms; <<>> is a syntax error.
RECURSIVE ParseExpr(_)
\* atom AND more, with more already in disjunctive form
AndWith(atom, more) ==
    IF more = <<>> THEN <<>> ELSE << <<atom>> \o more[1] >> \o Tail(more)

\* atom OR more
OrWith(atom, more) ==
    IF more = <<>> THEN <<>> ELSE << <<atom>> >> \o more

ParseAfter(atom, rest) ==
    IF rest = <<>> THEN << <<atom>> >>
    ELSE IF IsWord(rest[1], "AND") THEN AndWith(atom, ParseExpr(Tail(rest)))
    ELSE IF IsWord(rest[1], "OR") THEN OrWith(atom, ParseExpr(Tail(rest)))
    ELSE <<>>

ParseAtom(L, n) ==
    IF n = 0 THEN <<>> ELSE ParseAfter(SubSeq(L, 1, n), SubSeq(L, n + 1, Len(L)))

ParseExpr(L) == ParseAtom(L, AtomLen(L))

\* keys := key | key , keys ; key := column ASC|DESC.  <<>> is a syntax error.
\* (The sort options of the model order by integer columns only.)
RECURSIVE ParseKeys(_)
KeyWith(key, more) == IF more = <<>> THEN <<>> ELSE <<key>> \o more

KeysAfter(key, rest) ==
    IF rest = <<>> THEN <<key>>
    ELSE IF IsWord(rest[1], ",") THEN KeyWith(key, ParseKeys(Tail(rest)))
    ELSE <<>>

ParseKeys(L) ==
    IF Len(L) >= 2 /\ IsCol(L[1], IntColumns)
       /\ (IsWord(L[2], "ASC") \/ IsWord(L[2], "DESC"))
    THEN KeysAfter([col |-> L[1].v[1], dir |-> L[2].v[1]], SubSeq(L, 3, Len(L)))
    ELSE <<>>

\* n | n OFFSET m, as <<n>> or <<n, m>>; <<>> is a syntax error.
ParseLimit(L) ==
    IF Len(L) = 1 /\ IsNum(L[1]) THEN <<NumOf(L[1])>>
    ELSE IF Len(L) = 3 /\ IsNum(L[1]) /\ IsWord(L[2], "OFFSET") /\ IsNum(L[3])
    THEN <<NumOf(L[1]), NumOf(L[3])>>
    ELSE <<>>

\* First index of L at or after `from` that holds one of the words, else Len(L)+1.
FirstWord(L, from, words) ==
    LET hits == {i \in from..Len(L) : L[i].t = "w" /\ L[i].v[1] \in words}
    IN  IF hits = {} THEN Len(L) + 1 ELSE CHOOSE i \in hits : \A j \in hits : i <= j

\* The parsed statement: [ok, where (disjunctive form, <<>> if absent),
\* keys, limit].
Rejected == [ok |-> FALSE, where |-> <<>>, keys |-> <<>>, limit |-> <<>>]

\* A clause that is present must have parsed (<<>> is its syntax error).
Accepted(hasW, where, hasO, keys, hasL, limit) ==
    IF (hasW /\ where = <<>>) \/ (hasO /\ keys = <<>>) \/ (hasL /\ limit = <<>>)
    THEN Rejected
    ELSE [ok |-> TRUE, where |-> where, keys |-> keys, limit |-> limit]

HasWhereAt(L) == Len(L) >= 2 /\ IsWord(L[2], "WHERE")
HasOrderAt(L, wEnd) ==
    wEnd + 1 <= Len(L) /\ IsWord(L[wEnd], "ORDER") /\ IsWord(L[wEnd + 1], "BY")
HasLimitAt(L, oEnd) == oEnd <= Len(L) /\ IsWord(L[oEnd], "LIMIT")

\* Where the WHERE, ORDER BY and LIMIT clauses end (the index after them).
WhereEnd(L) == IF HasWhereAt(L) THEN FirstWord(L, 3, {"ORDER", "LIMIT", ";"}) ELSE 2
OrderEnd(L, wEnd) ==
    IF HasOrderAt(L, wEnd) THEN FirstWord(L, wEnd + 2, {"LIMIT", ";"}) ELSE wEnd
LimitEnd(L, oEnd) == IF HasLimitAt(L, oEnd) THEN FirstWord(L, oEnd + 1, {";"}) ELSE oEnd

ParseClauses(L, wEnd, oEnd, lEnd) ==
    IF Len(L) < 2 \/ ~IsWord(L[1], "SELECT_FROM_JOIN") THEN Rejected
    ELSE IF lEnd # Len(L) \/ ~IsWord(L[Len(L)], ";") THEN Rejected
    ELSE Accepted(
            HasWhereAt(L),
            IF HasWhereAt(L) THEN ParseExpr(SubSeq(L, 3, wEnd - 1)) ELSE <<>>,
            HasOrderAt(L, wEnd),
            IF HasOrderAt(L, wEnd) THEN ParseKeys(SubSeq(L, wEnd + 2, oEnd - 1)) ELSE <<>>,
            HasLimitAt(L, oEnd),
            IF HasLimitAt(L, oEnd) THEN ParseLimit(SubSeq(L, oEnd + 1, lEnd - 1)) ELSE <<>>)

ParseOrder(L, wEnd, oEnd) == ParseClauses(L, wEnd, oEnd, LimitEnd(L, oEnd))
ParseWhere(L, wEnd) == ParseOrder(L, wEnd, OrderEnd(L, wEnd))
ParseLexed(L) == ParseWhere(L, WhereEnd(L))
ParseStmt(stmt) == ParseLexed(Lex(stmt))

\* The rows of the store the statement runs over: logs with their tag names
\* (the rows of logs, log_tags and tags), fixed while queries are studied.
Log(id, level, file, line, time, message, tags) ==
    [id |-> id, level |-> level, caller_file |-> file,
     caller_line |-> line, time |-> time, message |-> message, tags |-> tags]

StoredLogs ==
    { Log(1, 1, <<"main", ".go">>, 10, 3, <<"a">>, {<<"a">>}),
      Log(2, 2, <<"util", ".go">>, 20, 2, <<"b">>, {<<"b">>}),
      Log(3, 1, <<"main", ".go">>, 30, 1, <<"a", " ", "b">>, {<<"a">>, <<"b">>}),
      Log(4, 1, <<"main", ".go">>, 40, 4,
          <<"x", "a", " ", "ORDER", " ", "BY", " ", "b", "x">>, {<<"c">>}),
      Log(5, 2, <<"util", ".go">>, 50, 5,
          <<"a", " ", "AND", " ", "logs.level", " ", "=", " ", "1",
            " ", "ORDER", " ", "BY", " ", "b">>, {<<"c">>}) }

IntValue(log, col) ==
    CASE col = "logs.level" -> log.level
      [] col = "logs.caller_line" -> log.caller_line
      [] col = "logs.time" -> log.time

TextValue(log, tag, col) ==
    CASE col = "logs.message" -> log.message
      [] col = "logs.caller_file" -> log.caller_file
      [] col = "tags.name" -> tag

\* SQL LIKE: "%" in the pattern stands for any run of text.  The pattern is
\* cut at its "%" signs; the first piece must start the text, the last must
\* end it, and the pieces between are looked for from left to right.
RECURSIVE LikeMiddle(_, _)
LikeMiddle(pieces, text) ==
    IF Len(pieces) = 1 THEN
        Len(text) >= Len(pieces[1])
        /\ SubSeq(text, Len(text) - Len(pieces[1]) + 1, Len(text)) = pieces[1]
    ELSE LET i == IF pieces[1] = <<>> THEN 1 ELSE Index(text, pieces[1])
         IN  i # 0 /\ LikeMiddle(Tail(pieces),
                                 SubSeq(text, i + Len(pieces[1]), Len(text)))

LikePieces(pieces, pattern, text) ==
    IF Len(pieces) = 1 THEN text = pattern
    ELSE /\ Len(text) >= Len(pieces[1])
         /\ SubSeq(text, 1, Len(pieces[1])) = pieces[1]
         /\ LikeMiddle(Tail(pieces), SubSeq(text, Len(pieces[1]) + 1, Len(text)))

LikeMatch(pattern, text) == LikePieces(Split(pattern, <<"%">>), pattern, text)

Compare(op, a, b) ==
    CASE op = "=" -> a = b
      [] op = "!=" -> a # b
      [] op = ">" -> a > b
      [] op = "<" -> a < b

\* One predicate (as delimited by AtomLen) on one joined row.
EvalAtom(atom, log, tag) ==
    IF Len(atom) = 5 THEN
        IntValue(log, atom[1].v[1]) >= NumOf(atom[3])
        /\ IntValue(log, atom[1].v[1]) <= NumOf(atom[5])
    ELSE IF Len(atom) = 4 THEN ~LikeMatch(atom[4].v, TextValue(log, tag, atom[1].v[1]))
    ELSE IF atom[3].t = "lit" THEN LikeMatch(atom[3].v, TextValue(log, tag, atom[1].v[1]))
    ELSE Compare(atom[2].v[1], IntValue(log, atom[1].v[1]), NumOf(atom[3]))

EvalWhere(where, log, tag) ==
    where = <<>>
    \/ \E d \in 1..Len(where) : \A a \in 1..Len(where[d]) : EvalAtom(where[d][a], log, tag)

\* SELECT DISTINCT over the inner joins: a log is selected when one of its
\* joined rows passes the WHERE; a log without tags has no joined row.
Matched(where, logs) ==
    {l \in logs : \E tag \in l.tags : EvalWhere(where, l, tag)}

\* ORDER BY: l1 sorts before l2 (ties in all keys fall back to the row id).
RECURSIVE Before(_, _, _)
Before(l1, l2, keys) ==
    IF keys = <<>> THEN l1.id < l2.id
    ELSE LET a == IntValue(l1, keys[1].col)
             b == IntValue(l2, keys[1].col)
         IN  IF a = b THEN Before(l1, l2, Tail(keys))
             ELSE IF keys[1].dir = "ASC" THEN a < b ELSE a > b

Min(a, b) == IF a <= b THEN a ELSE b

\* The ids of the selected logs, ordered, cut by LIMIT/OFFSET.
Sorted(m, keys) ==
    [i \in 1..Cardinality(m) |->
        (CHOOSE l \in m : Cardinality({x \in m : Before(x, l, keys)}) = i - 1).id]

Window(sorted, limit, off) ==
    IF limit = <<>> THEN sorted
    ELSE SubSeq(sorted, off + 1, Min(Len(sorted), off + limit[1]))

\* The joined rows of one log that pass the WHERE: one per tag of the log.
JoinedRows(where, log) == {tag \in log.tags : EvalWhere(where, log, tag)}

\* A plain SELECT over the joins would return a log once per passing joined
\* row; SELECT DISTINCT (all selected columns are columns of logs) returns
\* it once.
RECURSIVE selectAll(_, _, _)
selectAll(sorted, where, logs) ==
    IF sorted = <<>> THEN <<>>
    ELSE [i \in 1..Cardinality(JoinedRows(where,
                  CHOOSE l \in logs : l.id = sorted[1])) |-> sorted[1]]
         \o selectAll(Tail(sorted), where, logs)

selectDistinct(sorted, where, logs) == sorted

Returned(parsed, logs) ==
    Window(selectDistinct(Sorted(Matched(parsed.where, logs), parsed.keys),
                          parsed.where, logs),
           parsed.limit,
           IF Len(parsed.limit) = 2 THEN parsed.limit[2] ELSE 0)

\* The outcome of queryLogs: (nil, err) or (logs, nil).
Outcome(parsed, logs) ==
    IF parsed.ok
    THEN [err |-> FALSE, ids |-> Returned(parsed, logs)]
    ELSE [err |-> TRUE, ids |-> <<>>]

Exec(stmt, logs) == Outcome(ParseStmt(stmt), logs)

----------------------------------------------------------------------------
(* queryLogs: the builder starts as defaultQuery, every option handed in   *)
(* is called on it in turn, ";" is appended and the statement is run.      *)

\* An option value as the caller built it: the builder function and its
\* arguments (ints: the integer arguments, strs: the string arguments).
Opt(op, ints, strs) == [op |-> op, ints |-> ints, strs |-> strs]

FilterOps == {"HasTags", "LevelEqual", "LevelBetween", "CallerFileLike",
              "CallerFileNotLike", "MessageLike", "MessageNotLike"}
SortOps == {"SortLevel", "SortCallerLine", "SortTimestamp"}

\* config(query) of the loop of queryLogs, for the option o.
Apply(o, s) ==
    CASE o.op = "HasTags" -> HasTags(o.strs[1], Tail(o.strs), s)
      [] o.op = "LevelEqual" -> LevelEqual(o.ints[1], s)
      [] o.op = "LevelBetween" -> LevelBetween(o.ints[1], o.ints[2], s)
      [] o.op = "CallerFileLike" -> CallerFileLike(o.strs[1], s)
      [] o.op = "CallerFileNotLike" -> CallerFileNotLike(o.strs[1], s)
      [] o.op = "MessageLike" -> MessageLike(o.strs[1], s)
      [] o.op = "MessageNotLike" -> MessageNotLike(o.strs[1], s)
      [] o.op = "SortLevel" -> SortLevel(o.strs[1], s)
      [] o.op = "SortCallerLine" -> SortCallerLine(o.strs[1], s)
      [] o.op = "SortTimestamp" -> SortTimestamp(o.strs[1], s)
      [] o.op = "AddLimit" -> AddLimit(o.ints, s)
      [] o.op = "CustomQuery" -> CustomQuery(o.strs[1], s)
      [] o.op = "AddFilters" -> AddFilters(o.strs, s)
      [] o.op = "AddSorts" -> AddSorts(o.strs, s)

\* The option values the model hands to queryLogs.
CleanFilters ==
    { Opt("LevelEqual", <<1>>, <<>>),
      Opt("LevelBetween", <<1, 2>>, <<>>),
      Opt("MessageLike", <<>>, << <<"a">> >>),
      Opt("HasTags", <<>>, << <<"a">> >>),
      Opt("HasTags", <<>>, << <<"a">>, <<"b">> >>),
      Opt("HasTags", <<>>, << <<"a">>, <<"b">>, <<"c">> >>) }

MarkerFilters ==
    { Opt("MessageLike", <<>>, << <<"a", " ", "ORDER", " ", "BY", " ", "b">> >>),
      Opt("MessageLike", <<>>, << <<"a", " ", "WHERE", " ", "b">> >>),
      Opt("MessageLike", <<>>, << <<"a", " ", "LIMIT", " ", "b">> >>) }

Sorts ==
    { Opt("SortLevel", <<>>, << <<"d", "e", "s", "c">> >>),
      Opt("SortTimestamp", <<>>, << <<"A", "S", "C">> >>) }

Limits ==
    { Opt("AddLimit", <<>>, <<>>),
      Opt("AddLimit", <<5>>, <<>>),
      Opt("AddLimit", <<10, 2>>, <<>>) }

\* Hand-written fragments: a whole clause as in the comment of CustomQuery,
\* and a bare predicate.
CustomQueries ==
    { Opt("CustomQuery", <<>>, << <<"WHERE", " ">> \o LevelEqualConfig(1) >>),
      Opt("CustomQuery", <<>>, << LevelEqualConfig(2) >>) }

\* AddFilters / AddSorts over hand-written configs; strs holds the text each
\* config writes.
Groups ==
    { Opt("AddFilters", <<>>, << LevelEqualConfig(2) >>),
      Opt("AddFilters", <<>>, << LevelEqualConfig(2), Like("logs.message", <<"b">>) >>),
      Opt("AddSorts", <<>>, << <<"logs.time", " ", "DESC">> >>),
      Opt("AddSorts", <<>>, << <<"logs.time", " ", "DESC">>, <<"logs.level", " ", "ASC">> >>) }

\* The rows of an empty logs_data.db, and a call frame before any call.
EmptyStore == [logs |-> {}, tags |-> {}, log_tags |-> {}]
NoTx == [state |-> "none", data |-> EmptyStore, logId |-> 0]
NoCall == [op |-> "none", level |-> 0, tags |-> <<>>, message |-> <<>>, e |-> "nil",
           before |-> EmptyStore, i |-> 0, cursor |-> <<>>, logs |-> <<>>]
Returns(err, logs) == [err |-> err, logs |-> logs]

\* A folder without logs_data.db; two callers and a printer before they start.
NoFile == [file |-> FALSE, schema |-> FALSE]
Procs == {1, 2}
NoProcs == [p \in Procs |-> [at |-> "idle", err |-> FALSE]]
\* ShowCallerLevel and ShowTimestampLevel, by their iota values.
HideCaller == 0
ShowCallerFile == 1
ShowCallerLine == 2
ShowCallerFunction == 3
HideTimestamp == 0
ShowDate == 1
ShowDateTime == 2
ShowFullTimestamp == 3

\* The fields of a Logger that printing reads, as New sets them.
Lopts(inline, showTags, showCaller, showTimestamp) ==
    [inline |-> inline, showTags |-> showTags, showCaller |-> showCaller,
     showTimestamp |-> showTimestamp, tags |-> <<>>, folderPath |-> "exe"]

\* No print call yet: the logger as New built it, nothing measured.
NoPrinter ==
    [at |-> "idle",
     lopts |-> Lopts(FALSE, FALSE, ShowCallerFile, ShowDateTime),
     before |-> Lopts(FALSE, FALSE, ShowCallerFile, ShowDateTime),
     logs |-> <<>>, w |-> 0, lw |-> 0, tw |-> 0, cw |-> 0, tgw |-> 0, mw |-> 0,
     turn |-> 0]

\* A slice of strings: the backing array it points into (arrays live in
\* heap, cap is the length of the array) and its len.
Slice(arr, len) == [arr |-> arr, len |-> len]

\* No Logger (before Copy made one), and New("x").
NoLogger == [folderPath |-> "", showTags |-> FALSE, inline |-> FALSE,
             showCaller |-> "", showTimestamp |-> "", tags |-> Slice(0, 0),
             fatalTitle |-> "", fatalMessage |-> ""]
New(tags) ==
    [folderPath |-> "bin", showTags |-> FALSE, inline |-> FALSE,
     showCaller |-> "ShowCallerFile", showTimestamp |-> "ShowDateTime",
     tags |-> tags, fatalTitle |-> "Fatal",
     fatalMessage |-> "An error occurred, please check the logs for more information"]
ArrayIds == {1, 2, 3}

Init ==
    /\ sb = defaultQuery
    /\ applied = <<>>
    /\ pc = "building"
    /\ rows = [err |-> FALSE, ids |-> <<>>]
    /\ store = EmptyStore
    /\ tx = NoTx
    /\ db = "none"
    /\ call = NoCall
    /\ at = "idle"
    /\ events = <<>>
    /\ wrote = <<>>
    /\ out = Returns(FALSE, <<>>)
    /\ heap = [i \in ArrayIds |-> IF i = 1 THEN <<"x">> ELSE <<>>]
    /\ loggers = [a |-> New(Slice(1, 1)), b |-> NoLogger]
    /\ last = [who |-> "none", op |-> "New"]
    /\ calls = 0
    /\ disk = NoFile
    /\ procs = NoProcs
    /\ printer = NoPrinter

\* One turn of the loop `for _, config := range configs { config(query) }`.
ApplyOption(o) ==
    /\ pc = "building"
    /\ Len(applied) < MaxOps
    /\ sb' = Apply(o, sb)
    /\ applied' = Append(applied, o)
    /\ UNCHANGED <<pc, rows>>
    /\ UNCHANGED process
    /\ UNCHANGED settings
    /\ UNCHANGED aside

ApplyFilter(o) == o.op \in FilterOps /\ ApplyOption(o)
ApplySort(o) == o.op \in SortOps /\ ApplyOption(o)
ApplyLimit(o) == o.op = "AddLimit" /\ ApplyOption(o)

ApplyCustomQuery(o) == o.op = "CustomQuery" /\ ApplyOption(o)
ApplyAddFilters(o) == o.op = "AddFilters" /\ ApplyOption(o)
ApplyAddSorts(o) == o.op = "AddSorts" /\ ApplyOption(o)

\* query.WriteString(";"), db.Query and the scan of the rows.
RunQuery ==
    /\ pc = "building"
    /\ sb' = sb \o <<";">>
    /\ rows' = Exec(sb', StoredLogs)
    /\ pc' = "done"
    /\ UNCHANGED applied
    /\ UNCHANGED process
    /\ UNCHANGED settings
    /\ UNCHANGED aside

\* The next call of queryLogs starts from a fresh builder.
QueryLogs ==
    /\ pc = "done"
    /\ sb' = defaultQuery
    /\ applied' = <<>>
    /\ pc' = "building"
    /\ rows' = [err |-> FALSE, ids |-> <<>>]
    /\ UNCHANGED process
    /\ UNCHANGED settings
    /\ UNCHANGED aside

\* Options whose string operands hold no clause marker.
NextClean ==
    \/ \E o \in CleanFilters : ApplyFilter(o)
    \/ \E o \in Sorts : ApplySort(o)
    \/ \E o \in Limits : ApplyLimit(o)
    \/ RunQuery
    \/ QueryLogs

SpecClean == Init /\ [][NextClean]_vars

\* The same with operands that hold the text of a clause marker.
NextMarker ==
    \/ \E o \in CleanFilters \cup MarkerFilters : ApplyFilter(o)
    \/ \E o \in Sorts : ApplySort(o)
    \/ \E o \in Limits : ApplyLimit(o)
    \/ RunQuery
    \/ QueryLogs

SpecMarker == Init /\ [][NextMarker]_vars

\* Marker-free options together with CustomQuery.
NextCustom ==
    \/ \E o \in CleanFilters : ApplyFilter(o)
    \/ \E o \in Sorts : ApplySort(o)
    \/ \E o \in Limits : ApplyLimit(o)
    \/ \E o \in CustomQueries : ApplyCustomQuery(o)
    \/ RunQuery
    \/ QueryLogs

SpecCustom == Init /\ [][NextCustom]_vars

\* Filters whose tag pattern matches one, two or every tag of a stored log,
\* and limits below the number of stored logs.
DistinctFilters ==
    { Opt("HasTags", <<>>, << <<>> >>),
      Opt("HasTags", <<>>, << <<"a">> >>),
      Opt("HasTags", <<>>, << <<"a">>, <<"b">> >>),
      Opt("LevelEqual", <<1>>, <<>>) }

SmallLimits ==
    { Opt("AddLimit", <<1>>, <<>>),
      Opt("AddLimit", <<2>>, <<>>),
      Opt("AddLimit", <<2, 1>>, <<>>) }

NextDistinct ==
    \/ \E o \in DistinctFilters : ApplyFilter(o)
    \/ \E o \in Sorts : ApplySort(o)
    \/ \E o \in SmallLimits : ApplyLimit(o)
    \/ RunQuery
    \/ QueryLogs

SpecDistinct == Init /\ [][NextDistinct]_vars

\* Every option of the package.
Next ==
    \/ \E o \in CleanFilters \cup MarkerFilters : ApplyFilter(o)
    \/ \E o \in Sorts : ApplySort(o)
    \/ \E o \in Limits : ApplyLimit(o)
    \/ \E o \in CustomQueries : ApplyCustomQuery(o)
    \/ \E o \in Groups : ApplyAddFilters(o)
    \/ \E o \in Groups : ApplyAddSorts(o)
    \/ RunQuery
    \/ QueryLogs

Spec == Init /\ [][Next]_vars

----------------------------------------------------------------------------
(* Reading a statement back, for the properties below.                     *)

\* The statement without the ";" that RunQuery appends.
Body(s) == IF s # <<>> /\ s[Len(s)] = ";" THEN SubSeq(s, 1, Len(s) - 1) ELSE s

\* Position i of s lies inside a '...' literal.
InLiteral(s, i) == Cardinality({j \in 1..(i - 1) : s[j] = "'"}) % 2 = 1

\* Where a marker stands in s as SQL text, that is outside every literal.
TopHits(s, marker) ==
    {i \in 1..(Len(s) - Len(marker) + 1) :
        SubSeq(s, i, i + Len(marker) - 1) = marker /\ ~InLiteral(s, i)}

MinOf(S) == CHOOSE i \in S : \A j \in S : i <= j

\* The text after the first marker `from` up to the first of the markers
\* `until` behind it (or the end); <<>> when `from` is absent.
Section(s, from, until) ==
    LET starts == TopHits(s, from)
        b == MinOf(starts) + Len(from)
        ends == {i \in UNION {TopHits(s, m) : m \in until} : i >= b}
        e == IF ends = {} THEN Len(s) ELSE MinOf(ends) - 1
    IN  IF starts = {} THEN <<>> ELSE SubSeq(s, b, e)

WhereSection(s) == Section(s, WHERE, {ORDERBY, LIMIT})
OrderSection(s) == Section(s, ORDERBY, {LIMIT})
LimitSection(s) == Section(s, LIMIT, {})

\* The options of one kind in the history, in the order they were applied.
FiltersOf(h) == SelectSeq(h, LAMBDA o : o.op \in FilterOps)
SortsOf(h) == SelectSeq(h, LAMBDA o : o.op \in SortOps)
LimitsOf(h) == SelectSeq(h, LAMBDA o : o.op = "AddLimit" /\ o.ints # <<>>)

\* The text an option's own closure writes (its predicate or its sort key).
Fragment(o) ==
    CASE o.op = "HasTags" -> HasTagsConfig(o.strs[1], Tail(o.strs))
      [] o.op = "LevelEqual" -> LevelEqualConfig(o.ints[1])
      [] o.op = "LevelBetween" -> LevelBetweenConfig(o.ints[1], o.ints[2])
      [] o.op = "CallerFileLike" -> Like("logs.caller_file", o.strs[1])
      [] o.op = "CallerFileNotLike" -> NotLike("logs.caller_file", o.strs[1])
      [] o.op = "MessageLike" -> Like("logs.message", o.strs[1])
      [] o.op = "MessageNotLike" -> NotLike("logs.message", o.strs[1])
      [] o.op = "SortLevel" -> <<"logs.level", " ", getOrder(o.strs[1])>>
      [] o.op = "SortCallerLine" -> <<"logs.caller_line", " ", getOrder(o.strs[1])>>
      [] o.op = "SortTimestamp" -> <<"logs.time", " ", getOrder(o.strs[1])>>

Fragments(h) == [i \in 1..Len(h) |-> Fragment(h[i])]

Arrangements(n) ==
    {p \in [1..n -> 1..n] : \A i, j \in 1..n : p[i] = p[j] => i = j}

\* The statement the options of h leave behind when they start from `base`.
RECURSIVE ApplyFrom(_, _)
ApplyFrom(base, h) ==
    IF h = <<>> THEN base
    ELSE Apply(h[Len(h)], ApplyFrom(base, SubSeq(h, 1, Len(h) - 1)))

ApplyAll(h) == ApplyFrom(defaultQuery, h)

\* The history without its last option, and the statement before that option.
Front(h) == SubSeq(h, 1, Len(h) - 1)
Last(h) == h[Len(h)]
Previous == ApplyAll(Front(applied))

----------------------------------------------------------------------------
(* C1: for marker-free operands, after any N filter options applied in any *)
(* order the statement has exactly one WHERE, and its WHERE section is the *)
(* AND-join of the N fragments, each used exactly once (none lost, none    *)
(* duplicated, none overwritten).                                          *)
C1_WhereIsConjunctionOfAllFragments ==
    LET f == Fragments(FiltersOf(applied))
        n == Len(f)
    IN  n >= 1 =>
          /\ Cardinality(TopHits(sb, WHERE)) = 1
          /\ \E p \in Arrangements(n) :
                WhereSection(Body(sb)) = Join([i \in 1..n |-> f[p[i]]], AND)

\* Three filters went in, with a sort and a limit in the history or not.
C1_Witness ==
    /\ Len(FiltersOf(applied)) = 3
    /\ \E i, j \in 1..3 : FiltersOf(applied)[i] # FiltersOf(applied)[j]

\* s is the fixed prefix, then the WHERE section iff hasW, then the ORDER BY
\* section iff hasO, then the LIMIT section iff hasL, each at most once.
ClausesInOrder(s, hasW, hasO, hasL) ==
    LET count(m) == Cardinality(TopHits(s, m))
    IN  /\ count(WHERE) = (IF hasW THEN 1 ELSE 0)
        /\ count(ORDERBY) = (IF hasO THEN 1 ELSE 0)
        /\ count(LIMIT) = (IF hasL THEN 1 ELSE 0)
        /\ hasW => WhereSection(s) # <<>>
        /\ hasO => OrderSection(s) # <<>>
        /\ hasL => LimitSection(s) # <<>>
        /\ s = defaultQuery
               \o (IF hasW THEN WHERE \o WhereSection(s) ELSE <<>>)
               \o (IF hasO THEN ORDERBY \o OrderSection(s) ELSE <<>>)
               \o (IF hasL THEN LIMIT \o LimitSection(s) ELSE <<>>)

(* C2: for marker-free operands, after any sequence of filter, sort and    *)
(* AddLimit options the statement is the fixed SELECT/FROM/JOIN prefix,    *)
(* then at most one WHERE section, then at most one ORDER BY section, then *)
(* at most one LIMIT section, in that order; WHERE is there iff a filter   *)
(* was applied, ORDER BY iff a sort was, LIMIT iff an AddLimit with        *)
(* arguments was.                                                          *)
C2_ClausesInMandatoryOrder ==
    ClausesInOrder(Body(sb), FiltersOf(applied) # <<>>, SortsOf(applied) # <<>>,
                   LimitsOf(applied) # <<>>)

\* A limit went in first, then a sort, then a filter: all three clauses are
\* there although they were applied in the reverse of the clause order.
C2_Witness ==
    /\ Len(applied) = 3
    /\ applied[1].op = "AddLimit" /\ applied[1].ints # <<>>
    /\ applied[2].op \in SortOps
    /\ applied[3].op \in FilterOps
    /\ pc = "done"

----------------------------------------------------------------------------
\* A filter whose string operand holds the text of a clause marker.
HoldsMarker(o) ==
    /\ o.op \in FilterOps
    /\ \E i \in 1..Len(o.strs) :
          Contains(o.strs[i], WHERE) \/ Contains(o.strs[i], ORDERBY)
          \/ Contains(o.strs[i], LIMIT)

(* C3: a filter whose operand holds " WHERE ", " ORDER BY " or " LIMIT "   *)
(* does not corrupt clause placement: whatever options follow, the         *)
(* statement has exactly one WHERE section, at most one ORDER BY section,  *)
(* and every such filter's predicate, operand included, still stands       *)
(* unbroken in the WHERE section, between the quotes it was written in.    *)
C3_MarkerOperandKeepsClauses ==
    (\E i \in 1..Len(applied) : HoldsMarker(applied[i])) =>
        /\ Cardinality(TopHits(Body(sb), WHERE)) = 1
        /\ Cardinality(TopHits(Body(sb), ORDERBY)) <= 1
        /\ \A i \in 1..Len(applied) :
              HoldsMarker(applied[i]) =>
                  Contains(WhereSection(Body(sb)), Fragment(applied[i]))

\* The same for marker-free operands, where it holds.
C3_CleanOperandKeepsClauses ==
    FiltersOf(applied) # <<>> =>
        /\ Cardinality(TopHits(Body(sb), WHERE)) = 1
        /\ Cardinality(TopHits(Body(sb), ORDERBY)) <= 1
        /\ \A i \in 1..Len(applied) :
              applied[i].op \in FilterOps =>
                  Contains(WhereSection(Body(sb)), Fragment(applied[i]))

\* A filter with a marker in its operand was followed by another option.
C3_Witness ==
    /\ Len(applied) >= 2
    /\ HoldsMarker(applied[1])

----------------------------------------------------------------------------
\* The arrangements of a history that keep the sorts in their order and the
\* limits in theirs.
KindOf(o) ==
    IF o.op \in SortOps THEN "sort" ELSE IF o.op = "AddLimit" THEN "limit" ELSE "filter"

KeepsSameKindOrder(h, p) ==
    \A i, j \in 1..Len(h) :
        (i < j /\ KindOf(h[p[i]]) = KindOf(h[p[j]]) /\ KindOf(h[p[i]]) # "filter")
            => p[i] < p[j]

Rearranged(h, p) == [i \in 1..Len(h) |-> h[p[i]]]

\* The WHERE section of s is an AND-join of exactly the fragments f.
IsConjunctionOf(s, f) ==
    IF f = <<>> THEN TopHits(s, WHERE) = {}
    ELSE \E p \in Arrangements(Len(f)) :
            WhereSection(s) = Join([i \in 1..Len(f) |-> f[p[i]]], AND)

\* Two statements say the same: same conjuncts, same sort keys in the same
\* order, same limit and offset, and the same outcome on the stored logs.
SameQuery(s, u, f) ==
    /\ IsConjunctionOf(s, f) /\ IsConjunctionOf(u, f)
    /\ OrderSection(s) = OrderSection(u)
    /\ LimitSection(s) = LimitSection(u)
    /\ Exec(s \o <<";">>, StoredLogs) = Exec(u \o <<";">>, StoredLogs)

ComposesInAnyOrder(h, s) ==
    \A p \in Arrangements(Len(h)) :
        KeepsSameKindOrder(h, p) =>
            SameQuery(ApplyAll(Rearranged(h, p)), s, Fragments(FiltersOf(h)))

(* C4: composition law.  Any two arrangements of a list of filter, sort    *)
(* and limit options that keep the sorts in their relative order and the   *)
(* limits in theirs give statements with the same set of WHERE conjuncts,  *)
(* the same ORDER BY key sequence and the same LIMIT/OFFSET, and so the    *)
(* same result on the store.                                               *)
C4_CompositionLaw == ComposesInAnyOrder(applied, Body(sb))

\* The law restricted to histories without a marker in an operand.
C4_CompositionLawClean ==
    (\A i \in 1..Len(applied) : ~HoldsMarker(applied[i]))
        => ComposesInAnyOrder(applied, Body(sb))

\* A filter, a sort and a limit were applied, in some order.
C4_Witness ==
    /\ Len(applied) = 3
    /\ {KindOf(applied[i]) : i \in 1..3} = {"filter", "sort", "limit"}

\* What a filter option asks of a log, whatever text it writes.
HasTagLike(log, names) ==
    \E tag \in log.tags : \E i \in 1..Len(names) : Contains(tag, names[i])

Condition(o, log) ==
    CASE o.op = "HasTags" -> HasTagLike(log, o.strs)
      [] o.op = "LevelEqual" -> log.level = o.ints[1]
      [] o.op = "LevelBetween" -> log.level >= o.ints[1] /\ log.level <= o.ints[2]
      [] o.op = "CallerFileLike" -> Contains(log.caller_file, o.strs[1])
      [] o.op = "CallerFileNotLike" -> ~Contains(log.caller_file, o.strs[1])
      [] o.op = "MessageLike" -> Contains(log.message, o.strs[1])
      [] o.op = "MessageNotLike" -> ~Contains(log.message, o.strs[1])

LogOf(id) == CHOOSE l \in StoredLogs : l.id = id

EveryReturnedLogPassesEveryFilter ==
    (pc = "done" /\ ~rows.err) =>
        \A k \in 1..Len(rows.ids) :
            \A i \in 1..Len(applied) :
                applied[i].op \in FilterOps => Condition(applied[i], LogOf(rows.ids[k]))

(* C5: every record a query returns satisfies the condition of every       *)
(* filter option that was applied, whatever the options are and in         *)
(* whatever order they were applied (the conditions are ANDed).            *)
C5_ReturnedSatisfyEveryFilter == EveryReturnedLogPassesEveryFilter

\* The same for histories without a marker in an operand.
C5_ReturnedSatisfyEveryFilterClean ==
    (\A i \in 1..Len(applied) : ~HoldsMarker(applied[i]))
        => EveryReturnedLogPassesEveryFilter

\* A query with two filters returned a log.
C5_Witness ==
    /\ pc = "done" /\ ~rows.err /\ rows.ids # <<>>
    /\ Len(FiltersOf(applied)) >= 2

----------------------------------------------------------------------------
\* The condition HasTags documents: the disjunction of one LIKE per tag.
IsDisjunctionOfTags(text, names) ==
    \E p \in Arrangements(Len(names)) :
        text = Join([i \in 1..Len(names) |-> Like("tags.name", names[p[i]])], OR)

(* C6: HasTags(tag, tags...) with k >= 0 extra tags writes one well-formed *)
(* condition, the k+1 per-tag conditions with exactly one OR between each  *)
(* adjacent pair, so that a query with this option alone returns exactly   *)
(* the logs with a tag whose name contains one of the given strings.       *)
C6_HasTagsIsDisjunction ==
    /\ \A i \in 1..Len(applied) :
          applied[i].op = "HasTags" =>
              IsDisjunctionOfTags(Fragment(applied[i]), applied[i].strs)
    /\ (pc = "done" /\ Len(applied) = 1 /\ applied[1].op = "HasTags") =>
          /\ ~rows.err
          /\ {rows.ids[k] : k \in 1..Len(rows.ids)}
                = {l.id : l \in {x \in StoredLogs : HasTagLike(x, applied[1].strs)}}

\* The same for HasTags with one tag only, where it holds.
C6_HasTagsSingleTag ==
    /\ \A i \in 1..Len(applied) :
          (applied[i].op = "HasTags" /\ Len(applied[i].strs) = 1) =>
              IsDisjunctionOfTags(Fragment(applied[i]), applied[i].strs)
    /\ (pc = "done" /\ Len(applied) = 1 /\ applied[1].op = "HasTags"
        /\ Len(applied[1].strs) = 1) =>
          /\ ~rows.err
          /\ {rows.ids[k] : k \in 1..Len(rows.ids)}
                = {l.id : l \in {x \in StoredLogs : HasTagLike(x, applied[1].strs)}}

\* A query whose only option is a HasTags with extra tags has run.
C6_Witness ==
    /\ pc = "done" /\ Len(applied) = 1
    /\ applied[1].op = "HasTags" /\ Len(applied[1].strs) >= 2

\* Each config applied in turn as a filter, or as a sort key.
RECURSIVE EachAsFilter(_, _)
EachAsFilter(configs, s) ==
    IF configs = <<>> THEN s
    ELSE EachAsFilter(Tail(configs), prepareFilter(Head(configs), s))

RECURSIVE EachAsSort(_, _)
EachAsSort(configs, s) ==
    IF configs = <<>> THEN s
    ELSE EachAsSort(Tail(configs), prepareSort(Head(configs), s))

(* C7: AddFilters(c1..cn) has the effect of applying each ci in turn as a  *)
(* filter, AddSorts(c1..cn) that of applying each ci in turn as a sort     *)
(* key; for n >= 1 the statement is changed.                               *)
C7_GroupsApplyEachConfig ==
    applied # <<>> =>
        /\ Last(applied).op = "AddFilters" =>
              /\ Body(sb) = EachAsFilter(Last(applied).strs, Previous)
              /\ Body(sb) # Previous
        /\ Last(applied).op = "AddSorts" =>
              /\ Body(sb) = EachAsSort(Last(applied).strs, Previous)
              /\ Body(sb) # Previous

\* AddFilters was the last option applied.
C7_Witness == applied # <<>> /\ Last(applied).op = "AddFilters"

\* The text AddLimit(n) or AddLimit(n, m) stands for.
LimitText(o) ==
    FmtInt(o.ints[1]) \o (IF Len(o.ints) > 1 THEN OFFSET \o FmtInt(o.ints[2]) ELSE <<>>)

LastLimitWins ==
    LET l == LimitsOf(applied)
        s == Body(sb)
    IN  /\ l # <<>> =>
              /\ Cardinality(TopHits(s, LIMIT)) = 1
              /\ LimitSection(s) = LimitText(Last(l))
        /\ (applied # <<>> /\ Last(applied).op = "AddLimit" /\ Last(applied).ints = <<>>)
              => s = Previous

(* C8: the statement has exactly one LIMIT clause, with the count and the  *)
(* offset (or none) of the last AddLimit that had arguments, whatever      *)
(* AddLimit, filter and sort options came before, between or after;        *)
(* AddLimit() leaves the statement unchanged.                              *)
C8_LastLimitWins == LastLimitWins

\* The same for histories without a marker in an operand.
C8_LastLimitWinsClean ==
    (\A i \in 1..Len(applied) : ~HoldsMarker(applied[i])) => LastLimitWins

\* Two AddLimit with arguments, and another option after them.
C8_Witness ==
    /\ Len(LimitsOf(applied)) = 2
    /\ LimitsOf(applied)[1] # LimitsOf(applied)[2]
    /\ Last(applied).op # "AddLimit"

SortKeysInApplicationOrder ==
    LET k == Fragments(SortsOf(applied))
        s == Body(sb)
    IN  k # <<>> =>
            /\ Cardinality(TopHits(s, ORDERBY)) = 1
            /\ OrderSection(s) = Join(k, COMMA)

(* C9: the ORDER BY section lists the sort keys in the order their options *)
(* were applied, one key per application, repeated fields included,        *)
(* whatever filter or limit options came before, between or after.         *)
C9_SortKeysInApplicationOrder == SortKeysInApplicationOrder

\* The same for histories without a marker in an operand.
C9_SortKeysInApplicationOrderClean ==
    (\A i \in 1..Len(applied) : ~HoldsMarker(applied[i])) => SortKeysInApplicationOrder

\* Two sorts with a filter or a limit between them.
C9_Witness ==
    /\ Len(applied) = 3
    /\ applied[1].op \in SortOps /\ applied[3].op \in SortOps
    /\ applied[2].op \notin SortOps

----------------------------------------------------------------------------
\* The predicate of a hand-written fragment: the fragment without a leading
\* "WHERE ", and what the engine makes of it on a log.
IsClause(o) ==
    o.op = "CustomQuery" /\ Len(o.strs[1]) > 2 /\ SubSeq(o.strs[1], 1, 2) = <<"WHERE", " ">>

PredicateOf(o) ==
    IF IsClause(o) THEN SubSeq(o.strs[1], 3, Len(o.strs[1])) ELSE o.strs[1]

IsSinglePredicate(text) == Lex(text) # <<>> /\ AtomLen(Lex(text)) = Len(Lex(text))

CustomCondition(o, log) ==
    \E tag \in log.tags : EvalWhere(ParseExpr(Lex(PredicateOf(o))), log, tag)

\* The predicates of the filters and of the hand-written fragments of h.
Predicates(h) ==
    LET f == SelectSeq(h, LAMBDA o : o.op \in FilterOps \/ o.op = "CustomQuery")
    IN  [i \in 1..Len(f) |->
            IF f[i].op = "CustomQuery" THEN PredicateOf(f[i]) ELSE Fragment(f[i])]

ReturnedPassCustomAndFilters ==
    (pc = "done" /\ ~rows.err) =>
        \A k \in 1..Len(rows.ids) :
            \A i \in 1..Len(applied) :
                /\ applied[i].op \in FilterOps => Condition(applied[i], LogOf(rows.ids[k]))
                /\ applied[i].op = "CustomQuery"
                      => CustomCondition(applied[i], LogOf(rows.ids[k]))

----------------------------------------------------------------------------
(* The direction argument of the sort options.                              *)

\* The letters of `word`, each in its own or in upper case, in every mix.
CaseVariants(word) ==
    {v \in [1..Len(word) -> {word[i] : i \in 1..Len(word)}
                             \cup {ToUpperRune(word[i]) : i \in 1..Len(word)}] :
        \A i \in 1..Len(word) : v[i] \in {word[i], ToUpperRune(word[i])}}

\* Direction strings a caller may hand in: both directions in every mix of
\* cases, and strings that name no direction.
Directions ==
    CaseVariants(<<"a", "s", "c">>) \cup CaseVariants(<<"d", "e", "s", "c">>)
    \cup CaseVariants(<<"u", "p">>)
    \cup { <<>>, <<"d", "e", "s">>, <<"d", "e", "s", "c", " ">>, <<" ", "a", "s", "c">>,
           <<"a", "s", "c", "e">>, <<"d", "e", "s", "c", "e">>, <<"1">>,
           <<"d", "e", "long-s", "c">>, <<"a", "long-s", "c">> }

OrderSorts == {Opt(op, <<>>, <<d>>) : op \in SortOps, d \in Directions}

\* queryLogs with one sort option.
ApplyDirection(o) == applied = <<>> /\ ApplySort(o)

NextOrder ==
    \/ \E o \in OrderSorts : ApplyDirection(o)
    \/ RunQuery
    \/ QueryLogs

SpecOrder == Init /\ [][NextOrder]_vars

\* Equality of two strings ignoring case (Unicode simple folding, under which
\* the long s folds to "s").
FoldRune(c) ==
    CASE c = "A" -> "a"
      [] c = "S" -> "s"
      [] c = "C" -> "c"
      [] c = "D" -> "d"
      [] c = "E" -> "e"
      [] c = "U" -> "u"
      [] c = "P" -> "p"
      [] c = "long-s" -> "s"
      [] OTHER -> c

EqualFold(a, b) ==
    Len(a) = Len(b) /\ \A i \in 1..Len(a) : FoldRune(a[i]) = FoldRune(b[i])

\* The direction words of the ORDER BY section, key by key.
EmittedDirections(s) ==
    LET keys == Split(OrderSection(Body(s)), COMMA)
    IN  [i \in 1..Len(keys) |-> keys[i][Len(keys[i])]]

(* C18: for every sort option and every direction string the direction     *)
(* written to the statement is DESC when the string equals "desc" ignoring *)
(* case and ASC otherwise ("asc" in any case, and every other string, the  *)
(* empty one included); nothing but ASC or DESC is ever written.           *)
C18_DirectionIsDescOrAsc ==
    LET given == SortsOf(applied)
        dirs == EmittedDirections(sb)
    IN  given # <<>> =>
            /\ Len(dirs) = Len(given)
            /\ \A i \in 1..Len(given) :
                  /\ dirs[i] \in {"ASC", "DESC"}
                  /\ dirs[i] = "DESC" <=> EqualFold(given[i].strs[1], <<"d", "e", "s", "c">>)

\* A sort in mixed-case "desc" went through the engine.
C18_Witness ==
    /\ pc = "done" /\ ~rows.err
    /\ Len(applied) = 1 /\ applied[1].op \in SortOps
    /\ applied[1].strs[1] = <<"D", "e", "S", "c">>
    /\ EmittedDirections(sb) = <<"DESC">>

----------------------------------------------------------------------------
(* The substring filters on their own.                                      *)

\* Substring filters with plain operands.
PlainSubstringFilters ==
    { Opt("CallerFileLike", <<>>, << <<"main">> >>),
      Opt("CallerFileNotLike", <<>>, << <<"main">> >>),
      Opt("MessageLike", <<>>, << <<"a">> >>),
      Opt("MessageNotLike", <<>>, << <<"a">> >>),
      Opt("MessageLike", <<>>, << <<"b">> >>) }

\* Substring filters whose operand holds a percent sign.
PercentSubstringFilters ==
    { Opt("MessageLike", <<>>, << <<"a", "%", "b">> >>),
      Opt("MessageNotLike", <<>>, << <<"a", "%", "b">> >>) }

NextLike ==
    \/ \E o \in PlainSubstringFilters \cup PercentSubstringFilters : ApplyFilter(o)
    \/ RunQuery
    \/ QueryLogs

SpecLike == Init /\ [][NextLike]_vars

\* The stored logs that pass the condition of every applied filter.
Passing == {l \in StoredLogs : \A i \in 1..Len(applied) : Condition(applied[i], l)}

ReturnedAreExactlyThePassing ==
    (pc = "done" /\ applied # <<>>) =>
        /\ ~rows.err
        /\ {rows.ids[k] : k \in 1..Len(rows.ids)} = {l.id : l \in Passing}

HoldsPercent(o) == \E i \in 1..Len(o.strs) : Contains(o.strs[i], <<"%">>)

(* C17: a substring filter returns exactly the records whose field contains *)
(* the operand as a substring, whatever the operand is, and a NotLike       *)
(* filter returns exactly the other records (CallerFileLike("main") over    *)
(* caller files main.go and util.go returns only the main.go records).      *)
C17_SubstringFilterIsExact == ReturnedAreExactlyThePassing

\* The same for operands without a percent sign.
C17_SubstringFilterIsExactPlain ==
    (\A i \in 1..Len(applied) : ~HoldsPercent(applied[i])) => ReturnedAreExactlyThePassing

\* A query with one substring filter whose operand holds a percent sign ran.
C17_Witness ==
    /\ pc = "done" /\ ~rows.err
    /\ Len(applied) = 1 /\ HoldsPercent(applied[1])

----------------------------------------------------------------------------
(* The store and the calls that reach it: Debug, Info, Warn, Error and     *)
(* Fatal (createNewLog), PrintLogs (queryLogs), the Print calls, and       *)
(* getDBConnection in front of every store access.  A call runs step by    *)
(* step; every call into database/sql, os or runtime may fail.             *)

\* Largest number of rows of logs a store holds before writes stop.
MaxLogs == 2

WriteOps == {"Debug", "Info", "Warn", "Error"}
PrintOps == {"PrintDebug", "PrintInfo", "PrintWarn", "PrintError"}

\* The LogLevel each call hands to newLog.
LevelOf(op) ==
    CASE op \in {"Debug", "PrintDebug"} -> 0
      [] op \in {"Info", "PrintInfo"} -> 1
      [] op \in {"Warn", "PrintWarn"} -> 2
      [] op \in {"Error", "PrintError"} -> 3
      [] op \in {"Fatal", "PrintFatal"} -> 4

\* The calls, messages, errors and logger tag lists the callers use.
CalledWriteOps == {"Info", "Error"}
CalledPrintOps == {"PrintDebug", "PrintWarn"}
Messages == {<<"login", " ", "failed">>}
Errors == {"nil", "boom"}
TagLists == {<<>>, <<"auth">>, <<"Auth">>, <<"auth", "db">>, <<"auth", "auth">>}

\* e.Error()
ErrorText(e) == <<e>>

\* newLog and getCaller: the log a call builds from its arguments.
newLog(level, tags, message) ==
    [level |-> level, tags |-> tags, callerFile |-> <<"main", ".go">>,
     callerLine |-> 7, callerFunction |-> "main.main", message |-> message]

\* The frame of a call that starts now.
Frame(op, tags, message, e) ==
    [NoCall EXCEPT !.op = op, !.level = LevelOf(op), !.tags = tags,
                   !.message = message, !.e = e, !.before = store]

\* ---- the statements of createNewLog on the rows of a transaction ----

\* AUTOINCREMENT, and an id that is handed out again.
NextIdFirst(table) == 1

NextId(table) ==
    IF table = {} THEN 1
    ELSE 1 + (CHOOSE n \in {r.id : r \in table} : \A r \in table : r.id <= n)

\* INSERT INTO logs (level, caller_file, caller_line, caller_function, message);
\* time is the column default, the moment of the insert (moments are counted
\* by the inserts).
InsertLog(data, log) ==
    [data EXCEPT !.logs = @ \cup
        {[id |-> NextId(data.logs), level |-> log.level,
          caller_file |-> log.callerFile, caller_line |-> log.callerLine,
          caller_function |-> log.callerFunction, message |-> log.message,
          time |-> Cardinality(data.logs) + 1]}]

\* INSERT INTO tags (name) on a table that takes the row whatever it holds.
InsertTag(data, name) ==
    [data EXCEPT !.tags = @ \cup {[id |-> NextId(data.tags), name |-> name]}]

\* INSERT OR IGNORE INTO tags (name): name is UNIQUE
InsertOrIgnoreTag(data, name) ==
    IF \E t \in data.tags : t.name = name THEN data
    ELSE [data EXCEPT !.tags = @ \cup {[id |-> NextId(data.tags), name |-> name]}]

\* (SELECT id FROM tags WHERE name = ?)
TagId(data, name) == (CHOOSE t \in data.tags : t.name = name).id

Link(data, logId, name) == [log_id |-> logId, tag_id |-> TagId(data, name)]

\* INSERT INTO log_tags (log_id, tag_id): PRIMARY KEY (log_id, tag_id)
LinkConflicts(data, logId, name) == Link(data, logId, name) \in data.log_tags

InsertLink(data, logId, name) ==
    [data EXCEPT !.log_tags = @ \cup {Link(data, logId, name)}]

\* The committed rows while a statement runs inside an open transaction, and
\* the same for a store that writes every statement through at once.
StagedWriteThrough(committed, data) == data

Staged(committed, data) == committed

\* ---- the rows as the queries read them ----

\* SELECT tags.name FROM tags INNER JOIN log_tags ... WHERE log_tags.log_id = ?
\* (the names as a set: the primary key of log_tags rules out repetitions)
TagsOfLog(data, logId) ==
    {t.name : t \in {u \in data.tags : [log_id |-> logId, tag_id |-> u.id] \in data.log_tags}}

\* The rows of logs with their tags, as Exec reads them (time is assigned by
\* the store in the order of the inserts).
Joined(data) ==
    {Log(r.id, r.level, r.caller_file, r.caller_line, r.time, r.message,
         {<<name>> : name \in TagsOfLog(data, r.id)}) : r \in data.logs}

RowOf(data, id) == CHOOSE r \in data.logs : r.id = id

\* The *log queryLogs appends for the scanned row.
Scanned(data, id) ==
    [level |-> RowOf(data, id).level, tags |-> TagsOfLog(data, id),
     callerFile |-> RowOf(data, id).caller_file,
     callerLine |-> RowOf(data, id).caller_line,
     callerFunction |-> RowOf(data, id).caller_function,
     message |-> RowOf(data, id).message]

\* ---- where a call goes next ----

\* After newLog: the Print calls print, every other call goes to the store.
afterNewLogStores(op) == "stat"

afterNewLog(op) == IF op \in PrintOps \cup {"PrintFatal"} THEN "print" ELSE "stat"

\* After getDBConnection returned a connection.
afterConnect(op) == IF op \in {"PrintLogs", "Export"} THEN "query" ELSE "begin"

\* After queryLogs returned: Export goes on to write its file when err is nil.
afterQuery(op, err) == IF op = "Export" /\ ~err THEN "export" ELSE "idle"

\* After createNewLog returned: Fatal goes on to the alert when err is nil
\* (and a Fatal that went on whatever err is).
afterWriteAlerts(op, err) == IF op = "Fatal" THEN "alert" ELSE "idle"

afterWrite(op, err) == IF op = "Fatal" /\ ~err THEN "alert" ELSE "idle"

\* The call returns before db.Close() was deferred (inside getDBConnection,
\* newLog or the Print calls).
Return(err) ==
    /\ at' = "idle"
    /\ out' = Returns(err, <<>>)

\* queryLogs returns; the deferred db.Close() runs.
ReturnClosing(err, logs, ev) ==
    /\ at' = afterQuery(call.op, err)
    /\ out' = Returns(err, logs)
    /\ events' = Append(ev, "close")
    /\ db' = "closed"

\* createNewLog returns to Debug .. Fatal; the deferred db.Close() runs.
ReturnFromWrite(err, ev) ==
    /\ at' = afterWrite(call.op, err)
    /\ out' = IF afterWrite(call.op, err) = "idle" THEN Returns(err, <<>>) ELSE out
    /\ events' = Append(ev, "close")
    /\ db' = "closed"

RolledBack == [state |-> "rolledback", data |-> EmptyStore, logId |-> 0]

\* ---- the calls ----

CallWrite(op, tags, message) ==
    /\ at = "idle"
    /\ Cardinality(store.logs) < MaxLogs
    /\ call' = Frame(op, tags, message, "nil")
    /\ at' = "newLog"
    /\ events' = <<>>
    /\ db' = "none"
    /\ tx' = NoTx
    /\ out' = Returns(FALSE, <<>>)
    /\ UNCHANGED <<store, wrote>>
    /\ UNCHANGED disk
    /\ UNCHANGED builder
    /\ UNCHANGED settings
    /\ UNCHANGED aside

\* Fatal(e): `if e == nil { return nil }`
CallFatal(e, tags) ==
    /\ at = "idle"
    /\ Cardinality(store.logs) < MaxLogs
    /\ call' = Frame("Fatal", tags, ErrorText(e), e)
    /\ at' = IF e = "nil" THEN "idle" ELSE "newLog"
    /\ out' = Returns(FALSE, <<>>)
    /\ events' = <<>>
    /\ db' = "none"
    /\ tx' = NoTx
    /\ UNCHANGED <<store, wrote>>
    /\ UNCHANGED disk
    /\ UNCHANGED builder
    /\ UNCHANGED settings
    /\ UNCHANGED aside

CallPrint(op, tags, message) ==
    /\ at = "idle"
    /\ call' = Frame(op, tags, message, "nil")
    /\ at' = "newLog"
    /\ events' = <<>>
    /\ db' = "none"
    /\ tx' = NoTx
    /\ out' = Returns(FALSE, <<>>)
    /\ UNCHANGED <<store, wrote>>
    /\ UNCHANGED disk
    /\ UNCHANGED builder
    /\ UNCHANGED settings
    /\ UNCHANGED aside

\* PrintFatal(e): `if e == nil { return nil }`
CallPrintFatal(e, tags) ==
    /\ at = "idle"
    /\ call' = Frame("PrintFatal", tags, ErrorText(e), e)
    /\ at' = IF e = "nil" THEN "idle" ELSE "newLog"
    /\ out' = Returns(FALSE, <<>>)
    /\ events' = <<>>
    /\ db' = "none"
    /\ tx' = NoTx
    /\ UNCHANGED <<store, wrote>>
    /\ UNCHANGED disk
    /\ UNCHANGED builder
    /\ UNCHANGED settings
    /\ UNCHANGED aside

\* PrintLogs() with no options: queryLogs starts with getDBConnection.
CallPrintLogs ==
    /\ at = "idle"
    /\ call' = [NoCall EXCEPT !.op = "PrintLogs", !.before = store]
    /\ at' = "stat"
    /\ events' = <<>>
    /\ db' = "none"
    /\ tx' = NoTx
    /\ out' = Returns(FALSE, <<>>)
    /\ UNCHANGED <<store, wrote>>
    /\ UNCHANGED disk
    /\ UNCHANGED builder
    /\ UNCHANGED settings
    /\ UNCHANGED aside

\* Export(exportType) with no options: queryLogs starts with getDBConnection.
CallExport(exportType) ==
    /\ at = "idle"
    /\ call' = [NoCall EXCEPT !.op = "Export", !.e = exportType, !.before = store]
    /\ at' = "stat"
    /\ events' = <<>>
    /\ db' = "none"
    /\ tx' = NoTx
    /\ out' = Returns(FALSE, <<>>)
    /\ UNCHANGED <<store, wrote>>
    /\ UNCHANGED disk
    /\ UNCHANGED builder
    /\ UNCHANGED settings
    /\ UNCHANGED aside

\* exportJson / exportCSV / exportLogFile: createExportFile and the writes to
\* the file <time>_logs.<ext> in the folder.
ExportFile ==
    /\ at = "export"
    /\ \E ok \in BOOLEAN :
        /\ at' = "idle"
        /\ out' = Returns(~ok, out.logs)
    /\ UNCHANGED <<store, tx, db, call, events, wrote>>
    /\ UNCHANGED disk
    /\ UNCHANGED builder
    /\ UNCHANGED settings
    /\ UNCHANGED aside

\* newLog: getCaller (runtime.Caller) may fail.
NewLog ==
    /\ at = "newLog"
    /\ \E ok \in BOOLEAN :
        IF ok THEN at' = afterNewLog(call.op) /\ UNCHANGED <<out, events>>
        ELSE Return(TRUE) /\ events' = Append(events, "captureFailed")
    /\ UNCHANGED <<store, tx, db, call, wrote>>
    /\ UNCHANGED disk
    /\ UNCHANGED builder
    /\ UNCHANGED settings
    /\ UNCHANGED aside

\* printLogs, then `return nil` or, in PrintFatal, os.Exit(1).
PrintLogs ==
    /\ at = "print"
    /\ IF call.op = "PrintFatal" THEN at' = "exit" /\ UNCHANGED out
       ELSE Return(FALSE)
    /\ UNCHANGED <<store, tx, db, call, events, wrote>>
    /\ UNCHANGED disk
    /\ UNCHANGED builder
    /\ UNCHANGED settings
    /\ UNCHANGED aside

\* os.Exit(1)
Exit ==
    /\ at = "exit"
    /\ at' = "exited"
    /\ events' = Append(events, "exit")
    /\ UNCHANGED <<store, tx, db, call, wrote, out>>
    /\ UNCHANGED disk
    /\ UNCHANGED builder
    /\ UNCHANGED settings
    /\ UNCHANGED aside

\* The program is started again on the same folder: the rows are all that
\* is left of the process that exited.
Restart ==
    /\ at = "exited"
    /\ at' = "idle"
    /\ call' = NoCall
    /\ out' = Returns(FALSE, <<>>)
    /\ events' = <<>>
    /\ db' = "none"
    /\ tx' = NoTx
    /\ UNCHANGED <<store, wrote>>
    /\ UNCHANGED disk
    /\ UNCHANGED builder
    /\ UNCHANGED settings
    /\ UNCHANGED aside

\* ---- getDBConnection ----

\* if os.IsNotExist(err): the file is created when os.Stat says it is absent
\* (and a Stat that sends every call to os.Create).
needsCreateAlways(exists) == TRUE

needsCreate(exists) == ~exists

\* os.Stat of logs_data.db
Stat ==
    /\ at = "stat"
    /\ \E ok \in BOOLEAN :
        IF ok THEN at' = (IF needsCreate(disk.file) THEN "create" ELSE "open") /\ UNCHANGED out
        ELSE Return(TRUE)
    /\ UNCHANGED <<store, tx, db, call, events, wrote>>
    /\ UNCHANGED disk
    /\ UNCHANGED builder
    /\ UNCHANGED settings
    /\ UNCHANGED aside

\* os.Create of logs_data.db: the file is there and empty afterwards
Create ==
    /\ at = "create"
    /\ \E ok \in BOOLEAN :
        IF ok
        THEN /\ at' = "open"
             /\ disk' = [file |-> TRUE, schema |-> FALSE]
             /\ store' = EmptyStore
             /\ UNCHANGED out
        ELSE Return(TRUE) /\ UNCHANGED <<disk, store>>
    /\ UNCHANGED <<tx, db, call, events, wrote>>
    /\ UNCHANGED builder
    /\ UNCHANGED settings
    /\ UNCHANGED aside

\* sql.Open
Open ==
    /\ at = "open"
    /\ \E ok \in BOOLEAN :
        IF ok
        THEN /\ at' = "ping"
             /\ db' = "open"
             /\ events' = Append(events, "open")
             /\ UNCHANGED out
        ELSE Return(TRUE) /\ UNCHANGED <<db, events>>
    /\ UNCHANGED <<store, tx, call, wrote>>
    /\ UNCHANGED disk
    /\ UNCHANGED builder
    /\ UNCHANGED settings
    /\ UNCHANGED aside

\* db.Ping
Ping ==
    /\ at = "ping"
    /\ \E ok \in BOOLEAN :
        IF ok THEN at' = "schemaBegin" /\ UNCHANGED out
        ELSE Return(TRUE)
    /\ UNCHANGED <<store, tx, db, call, events, wrote>>
    /\ UNCHANGED disk
    /\ UNCHANGED builder
    /\ UNCHANGED settings
    /\ UNCHANGED aside

\* db.Begin for the schema
SchemaBegin ==
    /\ at = "schemaBegin"
    /\ \E ok \in BOOLEAN :
        IF ok THEN at' = "schemaExec" /\ UNCHANGED out
        ELSE Return(TRUE)
    /\ UNCHANGED <<store, tx, db, call, events, wrote>>
    /\ UNCHANGED disk
    /\ UNCHANGED builder
    /\ UNCHANGED settings
    /\ UNCHANGED aside

\* tx.Exec(table): CREATE TABLE / INDEX IF NOT EXISTS leave the rows alone
SchemaExec ==
    /\ at = "schemaExec"
    /\ \E ok \in BOOLEAN :
        IF ok THEN at' = "schemaCommit" /\ UNCHANGED out
        ELSE Return(TRUE)
    /\ UNCHANGED <<store, tx, db, call, events, wrote>>
    /\ UNCHANGED disk
    /\ UNCHANGED builder
    /\ UNCHANGED settings
    /\ UNCHANGED aside

\* tx.Commit of the schema (CREATE ... IF NOT EXISTS); `return db, nil`
SchemaCommit ==
    /\ at = "schemaCommit"
    /\ \E ok \in BOOLEAN :
        IF ok
        THEN /\ at' = afterConnect(call.op)
             /\ disk' = [disk EXCEPT !.schema = TRUE]
             /\ UNCHANGED out
        ELSE Return(TRUE) /\ UNCHANGED disk
    /\ UNCHANGED <<store, tx, db, call, events, wrote>>
    /\ UNCHANGED builder
    /\ UNCHANGED settings
    /\ UNCHANGED aside

\* ---- createNewLog ----

\* db.Begin
Begin ==
    /\ at = "begin"
    /\ \E ok \in BOOLEAN :
        IF ok
        THEN /\ at' = "prepareLog"
             /\ tx' = [state |-> "open", data |-> store, logId |-> 0]
             /\ events' = Append(events, "begin")
             /\ UNCHANGED <<db, out>>
        ELSE ReturnFromWrite(TRUE, events) /\ UNCHANGED tx
    /\ UNCHANGED <<store, call, wrote>>
    /\ UNCHANGED disk
    /\ UNCHANGED builder
    /\ UNCHANGED settings
    /\ UNCHANGED aside

\* tx.Prepare of the INSERT INTO logs
PrepareLog ==
    /\ at = "prepareLog"
    /\ \E ok \in BOOLEAN :
        IF ok THEN at' = "execLog" /\ UNCHANGED <<db, events, out>>
        ELSE ReturnFromWrite(TRUE, events)
    /\ UNCHANGED <<store, tx, call, wrote>>
    /\ UNCHANGED disk
    /\ UNCHANGED builder
    /\ UNCHANGED settings
    /\ UNCHANGED aside

\* logstmt.Exec
ExecLog ==
    /\ at = "execLog"
    /\ \E ok \in BOOLEAN :
        IF ok
        THEN /\ at' = "lastInsertId"
             /\ tx' = [tx EXCEPT !.data = InsertLog(tx.data, newLog(call.level, call.tags, call.message)),
                                 !.logId = NextId(tx.data.logs)]
             /\ store' = Staged(store, InsertLog(tx.data, newLog(call.level, call.tags, call.message)))
             /\ UNCHANGED <<db, events, out>>
        ELSE /\ tx' = RolledBack
             /\ ReturnFromWrite(TRUE, Append(events, "rollback"))
             /\ UNCHANGED store
    /\ UNCHANGED <<call, wrote>>
    /\ UNCHANGED disk
    /\ UNCHANGED builder
    /\ UNCHANGED settings
    /\ UNCHANGED aside

\* result.LastInsertId
LastInsertId ==
    /\ at = "lastInsertId"
    /\ \E ok \in BOOLEAN :
        IF ok
        THEN /\ at' = IF Len(call.tags) > 0 THEN "prepareTag" ELSE "commit"
             /\ call' = [call EXCEPT !.i = 1]
             /\ UNCHANGED <<tx, db, events, out>>
        ELSE /\ tx' = RolledBack
             /\ ReturnFromWrite(TRUE, Append(events, "rollback"))
             /\ UNCHANGED call
    /\ UNCHANGED <<store, wrote>>
    /\ UNCHANGED disk
    /\ UNCHANGED builder
    /\ UNCHANGED settings
    /\ UNCHANGED aside

\* tx.Prepare of the INSERT OR IGNORE INTO tags
PrepareTag ==
    /\ at = "prepareTag"
    /\ \E ok \in BOOLEAN :
        IF ok THEN at' = "execTag" /\ UNCHANGED <<db, events, out>>
        ELSE ReturnFromWrite(TRUE, events)
    /\ UNCHANGED <<store, tx, call, wrote>>
    /\ UNCHANGED disk
    /\ UNCHANGED builder
    /\ UNCHANGED settings
    /\ UNCHANGED aside

\* tagstmt.Exec(tag)
ExecTag ==
    /\ at = "execTag"
    /\ \E ok \in BOOLEAN :
        IF ok
        THEN /\ at' = "prepareLink"
             /\ tx' = [tx EXCEPT !.data = InsertOrIgnoreTag(tx.data, call.tags[call.i])]
             /\ store' = Staged(store, InsertOrIgnoreTag(tx.data, call.tags[call.i]))
             /\ UNCHANGED <<db, events, out>>
        ELSE /\ tx' = RolledBack
             /\ ReturnFromWrite(TRUE, Append(events, "rollback"))
             /\ UNCHANGED store
    /\ UNCHANGED <<call, wrote>>
    /\ UNCHANGED disk
    /\ UNCHANGED builder
    /\ UNCHANGED settings
    /\ UNCHANGED aside

\* tx.Prepare of the INSERT INTO log_tags
PrepareLink ==
    /\ at = "prepareLink"
    /\ \E ok \in BOOLEAN :
        IF ok THEN at' = "execLink" /\ UNCHANGED <<db, events, out>>
        ELSE ReturnFromWrite(TRUE, events)
    /\ UNCHANGED <<store, tx, call, wrote>>
    /\ UNCHANGED disk
    /\ UNCHANGED builder
    /\ UNCHANGED settings
    /\ UNCHANGED aside

\* linkstmt.Exec(logId, tag): fails on its own when the pair is already there
ExecLink ==
    /\ at = "execLink"
    /\ \E ok \in BOOLEAN :
        IF ok /\ ~LinkConflicts(tx.data, tx.logId, call.tags[call.i])
        THEN /\ at' = IF call.i < Len(call.tags) THEN "prepareTag" ELSE "commit"
             /\ call' = [call EXCEPT !.i = @ + 1]
             /\ tx' = [tx EXCEPT !.data = InsertLink(tx.data, tx.logId, call.tags[call.i])]
             /\ store' = Staged(store, InsertLink(tx.data, tx.logId, call.tags[call.i]))
             /\ UNCHANGED <<db, events, out>>
        ELSE /\ tx' = RolledBack
             /\ ReturnFromWrite(TRUE,
                    Append(IF LinkConflicts(tx.data, tx.logId, call.tags[call.i])
                           THEN Append(events, "linkConflict") ELSE events, "rollback"))
             /\ UNCHANGED <<store, call>>
    /\ UNCHANGED wrote
    /\ UNCHANGED disk
    /\ UNCHANGED builder
    /\ UNCHANGED settings
    /\ UNCHANGED aside

\* tx.Commit; `return nil`
Commit ==
    /\ at = "commit"
    /\ \E ok \in BOOLEAN :
        IF ok
        THEN /\ store' = tx.data
             /\ tx' = [tx EXCEPT !.state = "committed"]
             /\ wrote' = Append(wrote, newLog(call.level, call.tags, call.message))
             /\ ReturnFromWrite(FALSE, Append(events, "commit"))
        ELSE /\ tx' = RolledBack
             /\ ReturnFromWrite(TRUE, Append(events, "rollback"))
             /\ UNCHANGED <<store, wrote>>
    /\ UNCHANGED call
    /\ UNCHANGED disk
    /\ UNCHANGED builder
    /\ UNCHANGED settings
    /\ UNCHANGED aside

\* beeep.Alert in Fatal
Alert ==
    /\ at = "alert"
    /\ at' = "exit"
    /\ events' = Append(events, "alert")
    /\ UNCHANGED <<store, tx, db, call, wrote, out>>
    /\ UNCHANGED disk
    /\ UNCHANGED builder
    /\ UNCHANGED settings
    /\ UNCHANGED aside

\* ---- queryLogs ----

\* db.Query of the statement without options
Query ==
    /\ at = "query"
    /\ \E ok \in BOOLEAN :
        IF ok
        THEN /\ at' = "next"
             /\ call' = [call EXCEPT !.cursor = Exec(defaultQuery \o <<";">>, Joined(store)).ids,
                                     !.logs = <<>>]
             /\ UNCHANGED <<db, events, out>>
        ELSE ReturnClosing(TRUE, <<>>, events) /\ UNCHANGED call
    /\ UNCHANGED <<store, tx, wrote>>
    /\ UNCHANGED disk
    /\ UNCHANGED builder
    /\ UNCHANGED settings
    /\ UNCHANGED aside

\* rows.Next(): false at the end of the rows and false when the step fails;
\* the code leaves the loop either way and returns logs, nil.
RowsNext ==
    /\ at = "next"
    /\ IF call.cursor = <<>>
       THEN ReturnClosing(FALSE, call.logs, events)
       ELSE \E ok \in BOOLEAN :
            IF ok THEN at' = "scan" /\ UNCHANGED <<db, events, out>>
            ELSE ReturnClosing(FALSE, call.logs, Append(events, "nextFailed"))
    /\ UNCHANGED <<store, tx, call, wrote>>
    /\ UNCHANGED disk
    /\ UNCHANGED builder
    /\ UNCHANGED settings
    /\ UNCHANGED aside

\* rows.Scan
RowsScan ==
    /\ at = "scan"
    /\ \E ok \in BOOLEAN :
        IF ok THEN at' = "getTags" /\ UNCHANGED <<db, events, out>>
        ELSE ReturnClosing(TRUE, <<>>, events)
    /\ UNCHANGED <<store, tx, call, wrote>>
    /\ UNCHANGED disk
    /\ UNCHANGED builder
    /\ UNCHANGED settings
    /\ UNCHANGED aside

\* getTagsForLog and the append of the log
GetTagsForLog ==
    /\ at = "getTags"
    /\ \E ok \in BOOLEAN :
        IF ok
        THEN /\ at' = "next"
             /\ call' = [call EXCEPT !.logs = Append(@, Scanned(store, call.cursor[1])),
                                     !.cursor = Tail(@)]
             /\ UNCHANGED <<db, events, out>>
        ELSE ReturnClosing(TRUE, <<>>, events) /\ UNCHANGED call
    /\ UNCHANGED <<store, tx, wrote>>
    /\ UNCHANGED disk
    /\ UNCHANGED builder
    /\ UNCHANGED settings
    /\ UNCHANGED aside

NextStore ==
    \/ \E op \in CalledWriteOps, tags \in TagLists, m \in Messages : CallWrite(op, tags, m)
    \/ \E e \in Errors, tags \in TagLists : CallFatal(e, tags)
    \/ \E op \in CalledPrintOps, tags \in TagLists, m \in Messages : CallPrint(op, tags, m)
    \/ \E e \in Errors, tags \in TagLists : CallPrintFatal(e, tags)
    \/ CallPrintLogs
    \/ \E exportType \in {"JSON", "CSV", "LOG"} : CallExport(exportType)
    \/ ExportFile
    \/ NewLog
    \/ PrintLogs
    \/ Exit
    \/ Restart
    \/ Stat
    \/ Create
    \/ Open
    \/ Ping
    \/ SchemaBegin
    \/ SchemaExec
    \/ SchemaCommit
    \/ Begin
    \/ PrepareLog
    \/ ExecLog
    \/ LastInsertId
    \/ PrepareTag
    \/ ExecTag
    \/ PrepareLink
    \/ ExecLink
    \/ Commit
    \/ Alert
    \/ Query
    \/ RowsNext
    \/ RowsScan
    \/ GetTagsForLog

SpecStore == Init /\ [][NextStore]_vars

----------------------------------------------------------------------------
(* Write, then query with no options.                                      *)

Range(seq) == {seq[i] : i \in 1..Len(seq)}

\* queryLogs of PrintLogs has returned (logs, nil) and no step of its row
\* iteration failed.
QueryCompleted ==
    /\ at = "idle"
    /\ call.op = "PrintLogs"
    /\ ~out.err
    /\ "nextFailed" \notin Range(events)

\* The record the query returned carries the written values.
SameRecord(got, written) ==
    /\ got.level = written.level
    /\ got.tags = Range(written.tags)
    /\ got.callerFile = written.callerFile
    /\ got.callerLine = written.callerLine
    /\ got.callerFunction = written.callerFunction
    /\ got.message = written.message

C11_RoundTripTagged ==
    (QueryCompleted /\ Len(wrote) = 1 /\ wrote[1].tags # <<>>) =>
        (Len(out.logs) = 1 /\ SameRecord(out.logs[1], wrote[1]))

----------------------------------------------------------------------------
(* Failed writes.                                                          *)

\* Debug, Info, Warn, Error or Fatal has returned to its caller.
WriteReturned ==
    /\ at = "idle"
    /\ call.op \in WriteOps \cup {"Fatal"}
    /\ call.e # "nil" \/ call.op # "Fatal"

\* C12: a write is atomic: when createNewLog returns an error, at whatever
\* step, logs, tags and log_tags hold what they held before the call.
C12_FailedWriteLeavesStore ==
    (WriteReturned /\ out.err) => store = call.before

\* A write failed in its second turn of the tag loop, after the log row, a
\* tag row and an association row were inserted, on a store that held a log.
C12_Witness ==
    /\ WriteReturned
    /\ out.err
    /\ call.i = 2
    /\ "begin" \in Range(events)
    /\ call.before.logs # {}
    /\ store = call.before

----------------------------------------------------------------------------
(* What a query hands back.                                                *)

\* queryLogs of PrintLogs has returned.
QueryReturned == at = "idle" /\ call.op = "PrintLogs"

\* The records the statement without options selects from the rows.
Selected == Exec(defaultQuery \o <<";">>, Joined(store)).ids

\* The whole selection, in order, with a nil error, or nothing and an error.
CompleteOrError ==
    IF out.err THEN out.logs = <<>>
    ELSE /\ Len(out.logs) = Len(Selected)
         /\ \A i \in 1..Len(Selected) : out.logs[i] = Scanned(store, Selected[i])

\* C13: a query returns the complete list of the selected records with a nil
\* error, or a nil list with an error; a failure of the statement, of a step
\* of the row iteration, of a scan or of the tags of a record is an error.
C13_CompleteListOrError == QueryReturned => CompleteOrError

\* The same when no step of the row iteration fails.
C13_CompleteListOrErrorNoIterationFailure ==
    (QueryReturned /\ "nextFailed" \notin Range(events)) => CompleteOrError

\* The iteration failed after the first of two records.
C13_Witness ==
    /\ QueryReturned
    /\ "nextFailed" \in Range(events)
    /\ Len(Selected) = 2
    /\ Len(out.logs) = 1
    /\ ~out.err

----------------------------------------------------------------------------
(* Fatal.                                                                  *)

Happened(mark) == mark \in Range(events)

\* The place of the first occurrence of a mark among the events of the call.
Place(mark) == CHOOSE i \in 1..Len(events) : events[i] = mark /\ \A j \in 1..(i - 1) : events[j] # mark

\* The record of the running call is the last one committed.
FatalRecordCommitted ==
    /\ wrote # <<>>
    /\ wrote[Len(wrote)] = newLog(4, call.tags, ErrorText(call.e))
    /\ Cardinality(store.logs) = Cardinality(call.before.logs) + 1

\* C14: Fatal(e) exits only for a non-nil e whose record was committed, and
\* only after the commit and then the alert; Fatal(nil) returns nil with no
\* write, alert or exit; when newLog or the write fails, Fatal returns the
\* error with no alert and no exit.
C14_FatalExitsAfterCommitAndAlert ==
    call.op = "Fatal" =>
        /\ Happened("exit") =>
              /\ call.e # "nil"
              /\ Happened("commit") /\ Happened("alert")
              /\ Place("commit") < Place("alert")
              /\ Place("alert") < Place("exit")
              /\ FatalRecordCommitted
        /\ Happened("alert") => Happened("commit")
        /\ (at = "idle" /\ call.e = "nil") =>
              ~out.err /\ events = <<>> /\ store = call.before
        /\ (at = "idle" /\ call.e # "nil") =>
              out.err /\ ~Happened("alert") /\ ~Happened("exit") /\ ~Happened("commit")

C14_Witness ==
    /\ call.op = "Fatal"
    /\ at = "exited"
    /\ events = <<"open", "begin", "commit", "close", "alert", "exit">>
    /\ FatalRecordCommitted

\* Fatal returned the error of a failed write.
C14_WitnessFailedWrite ==
    /\ call.op = "Fatal"
    /\ at = "idle"
    /\ out.err
    /\ Happened("rollback")

----------------------------------------------------------------------------
(* The Print calls.                                                        *)

\* C15: PrintDebug, PrintInfo, PrintWarn, PrintError and PrintFatal never
\* change the store: during and after any of them logs, tags and log_tags
\* hold what they held before, no connection is opened and no transaction
\* is begun.
C15_PrintLeavesStore ==
    call.op \in PrintOps \cup {"PrintFatal"} =>
        /\ store = call.before
        /\ db = "none"
        /\ tx = NoTx
        /\ ~Happened("open") /\ ~Happened("begin") /\ ~Happened("commit")

\* A Print call returned nil on a store that holds a log.
C15_Witness ==
    /\ call.op \in PrintOps
    /\ at = "idle"
    /\ ~out.err
    /\ store.logs # {}
    /\ store = call.before

\* PrintFatal ended the process on a store that holds a log.
C15_WitnessPrintFatal ==
    /\ call.op = "PrintFatal"
    /\ at = "exited"
    /\ store.logs # {}
    /\ store = call.before

----------------------------------------------------------------------------
(* Rollbacks and connections.                                              *)

\* C19: every error return of createNewLog after its transaction was begun
\* (a failed prepare, a failed exec, a failed insert id, a failed commit)
\* comes after a rollback of that transaction.
C19_ErrorAfterBeginIsRolledBack ==
    (WriteReturned /\ out.err /\ Happened("begin")) =>
        (Happened("rollback") /\ tx.state = "rolledback")

\* The exec of the association row failed and the transaction was rolled
\* back before the error was returned.
C19_Witness ==
    /\ WriteReturned
    /\ out.err
    /\ events = <<"open", "begin", "rollback", "close">>
    /\ call.i = 1
    /\ call.tags # <<>>

\* A write or a query is over: it returned, or Fatal ended the process.
CallOver ==
    /\ call.op \in WriteOps \cup {"Fatal", "PrintLogs"}
    /\ at \in {"idle", "exited"}

\* C20: every write and every query closes the connection it opened before
\* it returns, on the success path and on every error path, a failed ping,
\* schema begin, schema exec or schema commit of getDBConnection included.
C20_OpenedConnectionIsClosed ==
    (CallOver /\ Happened("open")) => (db = "closed" /\ Happened("close"))

\* A write that committed and a query that returned closed their connection.
C20_Witness ==
    /\ CallOver
    /\ call.op = "PrintLogs"
    /\ ~out.err
    /\ out.logs # <<>>
    /\ db = "closed"
    /\ events = <<"open", "close">>

----------------------------------------------------------------------------
(* The configuration of the loggers: a, made by New("x"), and b, made by   *)
(* a.Copy().  The tag lists are slices into arrays of the heap.            *)

\* The number of calls made on the loggers.
MaxCalls == 4

Names == {"a", "b"}
Other(x) == IF x = "a" THEN "b" ELSE "a"

\* The arguments of the calls.
TagArgs == {<<>>, <<"x">>, <<"y">>, <<"x", "y">>}
\* The cells append allocates beyond the ones it needs.
Spares == {0, 1}

\* The strings a slice holds.
Contents(sl, h) == SubSeq(h[sl.arr], 1, sl.len)

Zeros(n) == [i \in 1..n |-> ""]

\* An array no logger points into.
FreeArray(ls) == CHOOSE i \in ArrayIds : \A x \in Names : ls[x].tags.arr # i

\* Arrays no logger points into are collected.
Collect(h, ls) ==
    [i \in ArrayIds |-> IF \E x \in Names : ls[x].tags.arr = i THEN h[i] ELSE <<>>]

\* append(sl, xs...): in place while the array has room, otherwise into a new
\* array (id) with the cells needed and `spare` more.
appendSlice(sl, xs, id, spare) ==
    IF sl.len + Len(xs) <= Len(heap[sl.arr]) THEN Slice(sl.arr, sl.len + Len(xs))
    ELSE Slice(id, sl.len + Len(xs))

appendHeap(sl, xs, id, spare) ==
    IF sl.len + Len(xs) <= Len(heap[sl.arr])
    THEN [heap EXCEPT ![sl.arr] =
            [i \in 1..Len(@) |->
                IF i > sl.len /\ i <= sl.len + Len(xs) THEN xs[i - sl.len] ELSE @[i]]]
    ELSE [heap EXCEPT ![id] = Contents(sl, heap) \o xs \o Zeros(spare)]

\* append(make([]string, 0), xs...)
freshSlice(xs, id) == Slice(id, Len(xs))

freshArray(xs, spare) == IF xs = <<>> THEN <<>> ELSE xs \o Zeros(spare)

\* l.tags of Copy, and the tags of a Copy that keeps the slice of opts.
copyTagsShared(tags, id) == tags

copyTags(tags, id) == freshSlice(Contents(tags, heap), id)

\* What a logger is configured to: its fields, the tag list by its contents.
View(l, h) == [l EXCEPT !.tags = Contents(l.tags, h)]

\* A call of a setter on the logger x that changes the fields as `l` says.
Set(x, op, l) ==
    /\ loggers[x] # NoLogger
    /\ calls < MaxCalls
    /\ loggers' = [loggers EXCEPT ![x] = l]
    /\ last' = [who |-> x, op |-> op]
    /\ calls' = calls + 1
    /\ UNCHANGED builder
    /\ UNCHANGED process
    /\ UNCHANGED aside

Copy(spare) ==
    /\ loggers.b = NoLogger
    /\ calls < MaxCalls
    /\ loggers' = [loggers EXCEPT !.b =
            [loggers.a EXCEPT !.tags = copyTags(loggers.a.tags, FreeArray(loggers))]]
    /\ heap' = Collect([heap EXCEPT ![FreeArray(loggers)] =
                            freshArray(Contents(loggers.a.tags, heap), spare)], loggers')
    /\ last' = [who |-> "none", op |-> "Copy"]
    /\ calls' = calls + 1
    /\ UNCHANGED builder
    /\ UNCHANGED process
    /\ UNCHANGED aside

Folder(x, path) ==
    /\ Set(x, "Folder", [loggers[x] EXCEPT !.folderPath = path])
    /\ UNCHANGED heap

Inline(x, inline) ==
    /\ Set(x, "Inline", [loggers[x] EXCEPT !.inline = inline])
    /\ UNCHANGED heap

Caller(x, level) ==
    /\ Set(x, "Caller", [loggers[x] EXCEPT !.showCaller = level])
    /\ UNCHANGED heap

Timestamp(x, level) ==
    /\ Set(x, "Timestamp", [loggers[x] EXCEPT !.showTimestamp = level])
    /\ UNCHANGED heap

ShowTags(x, show) ==
    /\ Set(x, "ShowTags", [loggers[x] EXCEPT !.showTags = show])
    /\ UNCHANGED heap

Tags(x, tags, spare) ==
    /\ Set(x, "Tags", [loggers[x] EXCEPT !.tags =
            appendSlice(loggers[x].tags, tags, FreeArray(loggers), spare)])
    /\ heap' = Collect(appendHeap(loggers[x].tags, tags, FreeArray(loggers), spare), loggers')

SetTags(x, tags, spare) ==
    /\ Set(x, "SetTags", [loggers[x] EXCEPT !.tags = freshSlice(tags, FreeArray(loggers))])
    /\ heap' = Collect([heap EXCEPT ![FreeArray(loggers)] = freshArray(tags, spare)], loggers')

SetFatal(x, title, message) ==
    /\ Set(x, "SetFatal", [loggers[x] EXCEPT !.fatalTitle = title, !.fatalMessage = message])
    /\ UNCHANGED heap

NextConfig ==
    \/ \E spare \in Spares : Copy(spare)
    \/ \E x \in Names : Folder(x, "/tmp")
    \/ \E x \in Names : Inline(x, TRUE)
    \/ \E x \in Names : Caller(x, "HideCaller")
    \/ \E x \in Names : Timestamp(x, "HideTimestamp")
    \/ \E x \in Names : ShowTags(x, TRUE)
    \/ \E x \in Names, tags \in TagArgs, spare \in Spares : Tags(x, tags, spare)
    \/ \E x \in Names, tags \in TagArgs, spare \in Spares : SetTags(x, tags, spare)
    \/ \E x \in Names : SetFatal(x, "Stop", "see the logs")

SpecConfig == Init /\ [][NextConfig]_vars

\* This step is Copy; this step is a call on the logger x.
CopyStep == loggers.b = NoLogger /\ loggers'.b # NoLogger
CallOn(x) == calls' # calls /\ last'.who = x

\* C16: Copy returns a logger whose every field equals the original's at the
\* time of the copy and leaves the original as it is; from then on a call of
\* Tags, SetTags, Folder, Inline, Caller, Timestamp, ShowTags or SetFatal on
\* one of the two leaves every field of the other, the contents of its tag
\* list included, unchanged.
C16_CopyIsEqualAndIndependent ==
    [][/\ CopyStep =>
            /\ View(loggers'.b, heap') = View(loggers.a, heap)
            /\ View(loggers'.a, heap') = View(loggers.a, heap)
       /\ \A x \in Names :
            (CallOn(x) /\ loggers[Other(x)] # NoLogger) =>
                View(loggers'[Other(x)], heap') = View(loggers[Other(x)], heap)]_vars

\* Both loggers appended to their tag lists after the copy, the original in
\* place in an array with a spare cell, and the lists differ.
C16_Witness ==
    /\ loggers.b # NoLogger
    /\ last.op = "Tags"
    /\ loggers.a.tags.len = 3
    /\ loggers.b.tags.len = 3
    /\ Contents(loggers.a.tags, heap) # Contents(loggers.b.tags, heap)
    /\ loggers.a.tags.arr # loggers.b.tags.arr

----------------------------------------------------------------------------
(* The rows of tags and log_tags.                                          *)

\* No two rows of tags carry the same name.
TagNamesUnique(data) ==
    \A t1 \in data.tags : \A t2 \in data.tags : t1.name = t2.name => t1 = t2

\* Every row of log_tags points to a row of logs and to a row of tags.
LinksResolve(data) ==
    \A lt \in data.log_tags :
        /\ \E r \in data.logs : r.id = lt.log_id
        /\ \E t \in data.tags : t.id = lt.tag_id

\* C21: after any sequence of successful and failed writes no two rows of
\* tags have the same name (names compared as written, "Auth" is not
\* "auth") and every row of log_tags references a row of logs and a row of
\* tags; a write with a tag that is already known adds no second row of tags.
C21_TagsUniqueLinksResolve ==
    /\ TagNamesUnique(store)
    /\ LinksResolve(store)
    /\ \A t1 \in store.tags : \A t2 \in store.tags : t1.id = t2.id => t1 = t2

\* Two logs were written with the tag "auth": one row of tags, two links.
C21_Witness ==
    /\ Cardinality(store.logs) = 2
    /\ Cardinality(store.tags) = 1
    /\ Cardinality(store.log_tags) = 2
    /\ \E t \in store.tags : t.name = "auth"

\* "Auth" and "auth" are two rows of tags.
C21_WitnessCase ==
    /\ Cardinality(store.logs) = 2
    /\ {t.name : t \in store.tags} = {"auth", "Auth"}

----------------------------------------------------------------------------
(* The committed rows over time.                                           *)

Ids(table) == {r.id : r \in table}

\* A step that changes the rows is the commit of a write that returns nil,
\* and it adds one row of logs under an id no row had.
OneNewLog ==
    /\ wrote' # wrote
    /\ Cardinality(store'.logs) = Cardinality(store.logs) + 1
    /\ \E r \in store'.logs : r.id \notin Ids(store.logs) /\ store'.logs = store.logs \cup {r}

\* C22: committed records are never changed or removed: over writes,
\* queries, prints and exports every row of logs stays as it is (id, level,
\* caller fields, message, time) with its tags; a successful write adds
\* exactly one row of logs with a fresh id; queries, PrintLogs and Export
\* change no row.
C22_CommittedRowsStay ==
    [][/\ store.logs \subseteq store'.logs
       /\ store.tags \subseteq store'.tags
       /\ store.log_tags \subseteq store'.log_tags
       /\ \A r \in store.logs : TagsOfLog(store', r.id) = TagsOfLog(store, r.id)
       /\ store' # store => OneNewLog
       /\ wrote' # wrote => OneNewLog
       /\ call.op \in {"PrintLogs", "Export"} \cup PrintOps \cup {"PrintFatal"} =>
              (at # "idle" => store' = store)]_vars

\* A second log was committed next to the first, and an export of both
\* returned.
C22_Witness ==
    /\ at = "idle"
    /\ call.op = "Export"
    /\ ~out.err
    /\ Len(out.logs) = 2
    /\ Len(wrote) = 2
    /\ Cardinality(Ids(store.logs)) = 2

----------------------------------------------------------------------------
(* The call site.                                                          *)

\* The record a write makes when the call site cannot be captured.
UnknownCaller(log) ==
    /\ log.callerFile = <<"unknown">>
    /\ log.callerLine = 0
    /\ log.callerFunction = "unknown"

\* C23: when the call site cannot be captured the record is still created,
\* with callerFile "unknown", callerLine 0 and callerFunction "unknown":
\* the step in which the capture fails takes Debug, Info, Warn, Error or
\* Fatal on to the store and does not end the call.
C23_CaptureFailureDoesNotAbort ==
    [][(/\ at = "newLog"
        /\ call.op \in WriteOps \cup {"Fatal"}
        /\ events' = Append(events, "captureFailed"))
          => at' = "stat"]_vars

\* Info returned the error of the failed capture and wrote nothing.
C23_Witness ==
    /\ at = "idle"
    /\ call.op = "Info"
    /\ out.err
    /\ events = <<"captureFailed">>
    /\ db = "none"
    /\ store = call.before
    /\ \A i \in 1..Len(wrote) : ~UnknownCaller(wrote[i])

----------------------------------------------------------------------------
(* Tag lists with a repeated name.                                         *)

Repeats(tags) == \E i \in 1..Len(tags) : \E j \in 1..Len(tags) : i # j /\ tags[i] = tags[j]

\* C26: a write succeeds for every tag list a Logger can hold, a list in
\* which a name occurs more than once included: no association row of a
\* write runs into the primary key of log_tags, and the record is linked
\* exactly once to each distinct name of the list.
C26_RepeatedTagWriteSucceeds ==
    call.op \in WriteOps \cup {"Fatal"} =>
        /\ ~Happened("linkConflict")
        /\ (WriteReturned /\ ~out.err) =>
              Cardinality({lt \in store.log_tags : lt.log_id = NextId(store.logs) - 1})
                  = Cardinality(Range(call.tags))

\* The same for the tag lists without a repeated name.
C26_WriteLinksEachTagOnce ==
    (call.op \in WriteOps \cup {"Fatal"} /\ ~Repeats(call.tags)) =>
        /\ ~Happened("linkConflict")
        /\ (WriteReturned /\ ~out.err) =>
              Cardinality({lt \in store.log_tags : lt.log_id = NextId(store.logs) - 1})
                  = Cardinality(Range(call.tags))

\* The write of a logger holding (auth, auth) was rolled back at the second
\* association row.
C26_Witness ==
    /\ at = "idle"
    /\ call.op \in WriteOps
    /\ Repeats(call.tags)
    /\ out.err
    /\ call.i = 2
    /\ events = <<"open", "begin", "linkConflict", "rollback", "close">>
    /\ store = call.before

----------------------------------------------------------------------------
(* Opening the store.                                                      *)

\* The positions of a call inside getDBConnection.
Connecting == {"stat", "create", "open", "ping", "schemaBegin", "schemaExec", "schemaCommit"}

\* C25: opening the store is idempotent: a step of getDBConnection on a
\* folder whose store exists leaves the schema and every stored row as they
\* are, however often it runs, and os.Create is reached only when the file is
\* absent.
C25_OpenIsIdempotent ==
    [][/\ (at \in Connecting /\ disk.file /\ disk.schema) =>
              (disk' = disk /\ store' = store)
       /\ (at \in Connecting /\ disk.file) => (disk'.file /\ store' = store)
       /\ at = "create" => ~disk.file]_vars

\* getDBConnection returned a connection to a store that held a log before
\* the call, for the second time at least.
C25_Witness ==
    /\ at = "query"
    /\ disk = [file |-> TRUE, schema |-> TRUE]
    /\ Len(wrote) = 2
    /\ store = call.before
    /\ Cardinality(store.logs) = 2

----------------------------------------------------------------------------
(* Deleting a log.  The package has no statement that deletes; the row is  *)
(* deleted by hand, through a connection opened the way getDBConnection    *)
(* opens it, once the calls are over.                                      *)

\* The data source name of sql.Open("sqlite3", dbFilePath): the path alone,
\* and one that switches the foreign keys on.
dsnForeignKeys == [path |-> "logs_data.db", params |-> {"_foreign_keys=on"}]

dsn == [path |-> "logs_data.db", params |-> {}]

\* go-sqlite3 enforces foreign keys only on a connection whose data source
\* name asks for it (PRAGMA foreign_keys is off otherwise).
ForeignKeys(name) == "_foreign_keys=on" \in name.params

\* DELETE FROM logs WHERE id = ?: ON DELETE CASCADE of log_tags.log_id acts
\* when foreign keys are enforced.
Delete(data, id, enforced) ==
    [data EXCEPT !.logs = {r \in @ : r.id # id},
                 !.log_tags = IF enforced THEN {lt \in @ : lt.log_id # id} ELSE @]

DeleteLog(id) ==
    /\ at = "idle"
    /\ disk.schema
    /\ at' = "deleted"
    /\ call' = [NoCall EXCEPT !.op = "DELETE", !.i = id, !.before = store]
    /\ store' = Delete(store, id, ForeignKeys(dsn))
    /\ UNCHANGED <<tx, db, events, wrote, out>>
    /\ UNCHANGED disk
    /\ UNCHANGED builder
    /\ UNCHANGED settings
    /\ UNCHANGED aside

NextDelete ==
    \/ NextStore
    \/ \E id \in Ids(store.logs) : DeleteLog(id)

SpecDelete == Init /\ [][NextDelete]_vars

\* C24: deleting a row of logs removes every row of log_tags that
\* references it and leaves the table of tags as it is, tags that no record
\* references any more included.
C24_DeleteCascadesToLinks ==
    at = "deleted" =>
        /\ \A lt \in store.log_tags : lt.log_id # call.i
        /\ store.tags = call.before.tags

\* The part of it about the table of tags and the other logs.
C24_DeleteLeavesTags ==
    at = "deleted" =>
        /\ store.tags = call.before.tags
        /\ store.logs = {r \in call.before.logs : r.id # call.i}

\* The only log tagged auth and db was deleted.
C24_Witness ==
    /\ at = "deleted"
    /\ store.logs = {}
    /\ Cardinality(store.tags) = 2
    /\ Cardinality(call.before.log_tags) = 2

----------------------------------------------------------------------------
(* Two callers on one folder.  Each runs one write, Info or Error of a      *)
(* logger with no tag or one: the existence check and the creation of the  *)
(* file are separate steps; the schema transaction and the write           *)
(* transaction are atomic steps, serialized by the locks of SQLite.        *)

MessageOf(p) == IF p = 1 THEN <<"first">> ELSE <<"second">>
RaceTags == {<<>>, <<"auth">>, <<"db">>}

\* The step of the caller p takes it to `to`, with the error flag err.
Moves(p, to, err) ==
    /\ procs' = [procs EXCEPT ![p].at = to, ![p].err = err]
    /\ UNCHANGED <<tx, db, call, at, events, wrote, out>>
    /\ UNCHANGED builder
    /\ UNCHANGED settings
    /\ UNCHANGED printer

\* os.Stat(dbFilePath) in getDBConnection
RaceStat(p) ==
    /\ procs[p].at = "idle"
    /\ \E ok \in BOOLEAN :
        IF ok THEN Moves(p, IF needsCreate(disk.file) THEN "create" ELSE "schema", FALSE)
        ELSE Moves(p, "returned", TRUE)
    /\ UNCHANGED <<store, disk>>

\* os.Create(dbFilePath): creates the file or truncates the one that is there
RaceCreate(p) ==
    /\ procs[p].at = "create"
    /\ \E ok \in BOOLEAN :
        IF ok
        THEN /\ Moves(p, "schema", FALSE)
             /\ disk' = [file |-> TRUE, schema |-> FALSE]
             /\ store' = EmptyStore
        ELSE Moves(p, "returned", TRUE) /\ UNCHANGED <<store, disk>>

\* sql.Open, db.Ping and the schema transaction of getDBConnection
RaceSchema(p) ==
    /\ procs[p].at = "schema"
    /\ \E ok \in BOOLEAN :
        IF ok /\ disk.file
        THEN Moves(p, "write", FALSE) /\ disk' = [disk EXCEPT !.schema = TRUE]
        ELSE Moves(p, "returned", TRUE) /\ UNCHANGED disk
    /\ UNCHANGED store

\* The rows after the transaction of createNewLog for a log with one tag
\* list.
Written(data, log) ==
    IF log.tags = <<>> THEN InsertLog(data, log)
    ELSE InsertLink(InsertOrIgnoreTag(InsertLog(data, log), log.tags[1]),
                    NextId(data.logs), log.tags[1])

\* createNewLog: its transaction commits and Info returns nil, or a step
\* fails (always so when the tables are gone) and Info returns the error.
RaceWrite(p, op, tags) ==
    /\ procs[p].at = "write"
    /\ \E ok \in BOOLEAN :
        IF ok /\ disk.schema
        THEN /\ Moves(p, "returned", FALSE)
             /\ store' = Written(store, newLog(LevelOf(op), tags, MessageOf(p)))
        ELSE Moves(p, "returned", TRUE) /\ UNCHANGED store
    /\ UNCHANGED disk

NextRace ==
    \/ \E p \in Procs : RaceStat(p)
    \/ \E p \in Procs : RaceCreate(p)
    \/ \E p \in Procs : RaceSchema(p)
    \/ \E p \in Procs, op \in CalledWriteOps, tags \in RaceTags : RaceWrite(p, op, tags)

SpecRace == Init /\ [][NextRace]_vars

\* The write of the caller p returned nil.
Succeeded(p) == procs[p].at = "returned" /\ ~procs[p].err

\* C30: when two operations run at once on a folder without a store file,
\* in every interleaving of their existence check, file creation, schema
\* creation and write, every record whose write returned success is in the
\* store afterwards.
C30_SuccessfulWritesSurvive ==
    \A p \in Procs :
        Succeeded(p) => \E r \in store.logs : r.message = MessageOf(p)

\* Both writes returned nil and the store holds the second record alone.
C30_Witness ==
    /\ Succeeded(1)
    /\ Succeeded(2)
    /\ {r.message : r \in store.logs} = {MessageOf(2)}

----------------------------------------------------------------------------
(* Query results hold each log once.                                       *)

\* No id stands at two places of the result.
NoRepeats(ids) == \A i, j \in 1..Len(ids) : ids[i] = ids[j] => i = j

\* A stored log with more than one joined row passing the WHERE that ran.
ManyRowsPass(where) ==
    \E l \in StoredLogs : Cardinality(JoinedRows(where, l)) > 1

\* C27: a query result holds every stored log at most once, however many
\* of its tags pass the filters, and after AddLimit(n) (the last one
\* applied) the result holds at most n logs.
C27_EachLogOnceWithinLimit ==
    (pc = "done" /\ ~rows.err) =>
        /\ NoRepeats(rows.ids)
        /\ LimitsOf(applied) # <<>> =>
               Len(rows.ids) <= LimitsOf(applied)[Len(LimitsOf(applied))].ints[1]

\* A HasTags pattern that both tags of log 3 pass ran with AddLimit(2):
\* log 3 is in the result, which is cut to two logs.
C27_Witness ==
    /\ pc = "done"
    /\ ~rows.err
    /\ \E i \in 1..Len(applied) : applied[i] = Opt("HasTags", <<>>, << <<>> >>)
    /\ \E i \in 1..Len(applied) : applied[i] = Opt("AddLimit", <<2>>, <<>>)
    /\ ManyRowsPass(ParseStmt(sb).where)
    /\ Len(rows.ids) = 2
    /\ \E i \in 1..2 : rows.ids[i] = 3

----------------------------------------------------------------------------
(* printLogs and getInlineLogs: the page width, the widths of the columns  *)
(* and the loop that shrinks them.  A text is kept by its width in cells   *)
(* (lipgloss.Width), a log by the widths of its texts.                     *)

PrintedLog(level, day, file, line, function, tags, message) ==
    [level |-> level, day |-> day, file |-> file, line |-> line,
     function |-> function, tags |-> tags, message |-> message]

\* INFO, main.go:42 - main.main, tag auth, a message of 12 cells.
ShortLog == PrintedLog(1, 6, 7, 2, 9, <<4>>, 12)
\* WARNING, handlers.go:123, tags authentication, database and payments,
\* a message of 120 cells.
LongLog == PrintedLog(2, 9, 11, 3, 22, <<14, 8, 8>>, 120)

\* The lists handed to printLogs: an empty query result, one log, two logs.
PrintedLists == {<<>>, <<ShortLog>>, <<ShortLog, LongLog>>}

\* term.GetSize: the width of the terminal, or an error when stdout is none.
TermSizes ==
    {[width |-> 0, err |-> TRUE]}
    \cup {[width |-> n, err |-> FALSE] : n \in {3, 20, 64, 79, 80, 200}}

\* len(LogLevel.String()): DEBUG, INFO, WARNING, ERROR, FATAL.
levelWidth(level) ==
    CASE level = 0 -> 5
      [] level = 1 -> 4
      [] level = 2 -> 7
      [] level = 3 -> 5
      [] level = 4 -> 5

\* timestamp.toString: "2006-01-02", "2006-01-02 15:04:05",
\* "Monday 2006-01-02 15:04:05" (day: the width of the day name) or "".
timestampWidth(log, level) ==
    CASE level = ShowDate -> 10
      [] level = ShowDateTime -> 19
      [] level = ShowFullTimestamp -> log.day + 1 + 19
      [] OTHER -> 0

\* log.getCaller: "<file:line - function>" inline, "at file:line - function"
\* in a block, as far as the level asks.
callerWidth(log, inline, level) ==
    IF level = HideCaller THEN 0
    ELSE (IF inline THEN 1 ELSE 3)
         + (IF level >= ShowCallerFile THEN log.file ELSE 0)
         + (IF level >= ShowCallerLine THEN 1 + log.line ELSE 0)
         + (IF level >= ShowCallerFunction THEN 3 + log.function ELSE 0)
         + (IF inline THEN 1 ELSE 0)

\* strings.Join(log.getTags(), ", "): each tag after a two-cell bookmark.
RECURSIVE tagsWidth(_)
tagsWidth(tags) ==
    IF tags = <<>> THEN 0
    ELSE 2 + Head(tags) + (IF Len(tags) > 1 THEN 2 ELSE 0) + tagsWidth(Tail(tags))

MaxOf(S) == IF S = {} THEN 0 ELSE CHOOSE x \in S : \A y \in S : y <= x

\* w of printLogs: 100, 130 inline, and the terminal's width less 4 when
\* the terminal is narrower.
pageWidth(inline, size) ==
    IF size.width > 0 /\ size.width < (IF inline THEN 130 ELSE 100) /\ ~size.err
    THEN size.width - 4
    ELSE IF inline THEN 130 ELSE 100

\* printLogs up to the choice between the inline and the block layout.
printLogs(lopts, logs, size) ==
    /\ printer.at \in {"idle", "done"}
    /\ printer' = [NoPrinter EXCEPT
                      !.at = IF lopts.inline THEN "inline" ELSE "block",
                      !.lopts = lopts, !.before = lopts, !.logs = logs,
                      !.w = pageWidth(lopts.inline, size)]
    /\ UNCHANGED builder
    /\ UNCHANGED process
    /\ UNCHANGED settings
    /\ UNCHANGED procs

\* getBlockLogs reads lopts; the page is printed.
getBlockLogs ==
    /\ printer.at = "block"
    /\ printer' = [printer EXCEPT !.at = "done"]
    /\ UNCHANGED builder
    /\ UNCHANGED process
    /\ UNCHANGED settings
    /\ UNCHANGED procs

\* lopts.Timestamp(ShowDateTime) on a page of at most 75 cells.
narrowTimestamp(w, lopts) ==
    IF w <= 75 /\ lopts.showTimestamp = ShowFullTimestamp
    THEN [lopts EXCEPT !.showTimestamp = ShowDateTime]
    ELSE lopts

\* The loop over the logs: each column as wide as its widest text.
measured(p, lopts) ==
    [p EXCEPT
        !.lopts = lopts,
        !.lw = MaxOf({levelWidth(p.logs[i].level) + 2 : i \in 1..Len(p.logs)}),
        !.tw = IF lopts.showTimestamp # HideTimestamp
               THEN MaxOf({timestampWidth(p.logs[i], lopts.showTimestamp) + 2 :
                             i \in 1..Len(p.logs)})
               ELSE 0,
        !.cw = IF lopts.showCaller # HideCaller
               THEN MaxOf({callerWidth(p.logs[i], lopts.inline, lopts.showCaller) + 2 :
                             i \in 1..Len(p.logs)})
               ELSE 0,
        !.tgw = IF lopts.showTags
                THEN MaxOf({tagsWidth(p.logs[i].tags) + 2 :
                              i \in {j \in 1..Len(p.logs) : Len(p.logs[j].tags) > 0}})
                ELSE 0,
        !.mw = MaxOf({p.logs[i].message + 1 : i \in 1..Len(p.logs)})]

\* On a page of at most 75 cells the tags column goes to the message.
hideTags(p) ==
    IF p.w <= 75
    THEN [p EXCEPT !.lopts.showTags = FALSE, !.mw = p.mw + p.tgw, !.tgw = 0]
    ELSE p

\* On a page of at most 60 cells the caller column goes to the message.
hideCaller(p) ==
    IF p.w <= 60
    THEN [p EXCEPT !.lopts.showCaller = HideCaller, !.mw = p.mw + p.cw, !.cw = 0]
    ELSE p

\* getInlineLogs up to the loop that shrinks the columns.
getInlineLogs ==
    /\ printer.at = "inline"
    /\ printer' = [hideCaller(hideTags(measured(printer,
                        narrowTimestamp(printer.w, printer.lopts))))
                   EXCEPT !.at = "shrink"]
    /\ UNCHANGED builder
    /\ UNCHANGED process
    /\ UNCHANGED settings
    /\ UNCHANGED procs

\* lw+tw+cw+tgw+mw
Total(p) == p.lw + p.tw + p.cw + p.tgw + p.mw

\* One turn of `for lw+tw+cw+tgw+mw > w`: the timestamp shrinks down to 12,
\* the caller down to 1 when the function is shown, the message down to 1.
\* A turn in which none of them shrinks leaves the widths as they were and
\* is followed by the next turn (turn: the parity of the turns taken).
ShrinkTurn ==
    /\ printer.at = "shrink"
    /\ Total(printer) > printer.w
    /\ printer' = [printer EXCEPT
            !.turn = 1 - printer.turn,
            !.tw = IF printer.tw > 12 THEN printer.tw - 1 ELSE printer.tw,
            !.cw = IF printer.lopts.showCaller > ShowCallerLine /\ printer.cw > 1
                   THEN printer.cw - 1 ELSE printer.cw,
            !.mw = IF printer.mw > 1 THEN printer.mw - 1 ELSE printer.mw]
    /\ UNCHANGED builder
    /\ UNCHANGED process
    /\ UNCHANGED settings
    /\ UNCHANGED procs

\* The loop is left, the rows are rendered and the page is printed.
RenderRows ==
    /\ printer.at = "shrink"
    /\ Total(printer) <= printer.w
    /\ printer' = [printer EXCEPT !.at = "done"]
    /\ UNCHANGED builder
    /\ UNCHANGED process
    /\ UNCHANGED settings
    /\ UNCHANGED procs

\* The logger configurations a caller can set before printing.
PrintedLoggers ==
    {Lopts(inline, showTags, showCaller, showTimestamp) :
        inline \in BOOLEAN, showTags \in BOOLEAN,
        showCaller \in HideCaller..ShowCallerFunction,
        showTimestamp \in HideTimestamp..ShowFullTimestamp}

\* The steps of a print call under way.
Printing ==
    \/ getBlockLogs
    \/ getInlineLogs
    \/ ShrinkTurn
    \/ RenderRows

NextPrint ==
    \/ \E lopts \in PrintedLoggers, logs \in PrintedLists, size \in TermSizes :
          printLogs(lopts, logs, size)
    \/ Printing

SpecPrint == Init /\ [][NextPrint]_vars

\* A call under way keeps running: nothing else is scheduled in its place.
SpecPrintFair == SpecPrint /\ WF_vars(Printing)

----------------------------------------------------------------------------
(* Printing and the logger's configuration.                                *)

\* C28: when a print call has returned, the logger's inline, showTags,
\* showCaller, showTimestamp, tags and folder are what they were before
\* the call, for every terminal width and both layouts.
C28_PrintingLeavesLogger ==
    printer.at = "done" => printer.lopts = printer.before

\* The same for the block layout and for inline pages wider than 75 cells.
C28_WidePageLeavesLogger ==
    (printer.at = "done" /\ (~printer.before.inline \/ printer.w > 75)) =>
        printer.lopts = printer.before

\* An inline print on a page of at most 60 cells returned: the logger that
\* showed tags, caller and full timestamp shows none of the three as before.
C28_Witness ==
    /\ printer.at = "done"
    /\ printer.w <= 60
    /\ printer.before.showTags /\ ~printer.lopts.showTags
    /\ printer.before.showCaller = ShowCallerFunction
    /\ printer.lopts.showCaller = HideCaller
    /\ printer.before.showTimestamp = ShowFullTimestamp
    /\ printer.lopts.showTimestamp = ShowDateTime

----------------------------------------------------------------------------
(* The end of the loop that shrinks the columns.                           *)

\* The least total the loop can reach from the widths it starts with.
Floor(p) ==
    p.lw + Min(p.tw, 12) + p.tgw + Min(p.mw, 1)
    + (IF p.lopts.showCaller > ShowCallerLine THEN Min(p.cw, 1) ELSE p.cw)

\* C29: the loop that shrinks the columns of an inline print ends, for
\* every list of logs, logger configuration and terminal width: once in
\* the loop, the call reaches the rendering of the rows.
C29_ShrinkLoopEnds == (printer.at = "shrink") ~> (printer.at = "done")

\* The loop ends when the least total fits the page.
C29_ShrinkLoopEndsWhenFloorFits ==
    (printer.at = "shrink" /\ Floor(printer) <= printer.w) ~> (printer.at = "done")

\* In the loop on a page of 76 cells (a terminal of 80), with a total over
\* the page and no column left that a turn shrinks.
C29_Witness ==
    /\ printer.at = "shrink"
    /\ printer.w = 76
    /\ Total(printer) > printer.w
    /\ printer.tw <= 12
    /\ printer.mw <= 1
    /\ printer.lopts.showCaller <= ShowCallerLine

====
